---- MODULE Spec2Model ----
(***************************************************************************)
(* Carpooling platform: the reservation engine (app/api/reservations.py)   *)
(* and the ride registry (backend/app/api/rides.py) as a state machine     *)
(* over the three tables rides, reservations and notifications.            *)
(*                                                                         *)
(* Spec        one request at a time: every handler runs from its first    *)
(*             query to its commit (or abort) as one step.                 *)
(* SpecApprove overlapping approve requests: each request is a process     *)
(*             that reads the reservation, takes the ride row with         *)
(*             SELECT ... FOR UPDATE, and then checks, writes and commits. *)
(***************************************************************************)
EXTENDS Integers, Sequences, FiniteSets

(* ------------------------------ bounds --------------------------------- *)
NumCallers == 2        \* Spec: the employees that send requests
MaxRides == 1          \* Spec: rides created
MaxReservations == 2   \* Spec: reservations created
MaxSeats == 2          \* seats offered or asked for in one request
NumProcs == 3          \* SpecApprove: overlapping requests
MaxNotifications == 3  \* SpecNotifications: notifications created
NumOverlap == 2        \* SpecOverlap: overlapping requests

\* table employees: never written by the handlers modelled here
NumEmployees == NumCallers + NumProcs
Employees == 1..NumEmployees
Callers == 1..NumCallers
SeatVals == (-1)..MaxSeats

(* --------------------------- request inputs ---------------------------- *)
\* A JSON value sent as seats: absent, a non-integer, or an integer.
Absent == [given |-> FALSE, isInt |-> FALSE, val |-> 0]
NotInt == [given |-> TRUE, isInt |-> FALSE, val |-> 0]
IntVal(v) == [given |-> TRUE, isInt |-> TRUE, val |-> v]
SeatInputs == {Absent, NotInt} \cup {IntVal(v) : v \in SeatVals}

VARIABLES
    rides,          \* table rides: Seq of [driver_id, available_seats, status]
    reservations,   \* table reservations: Seq of [employee_id, ride_id, seats_reserved, status]
    notifications,  \* table notifications: Seq of [employee_id, ride_id, kind]
    capacity,       \* history: per ride, the seat count of its last create/update request
    resp,           \* the request handled by the last step and its HTTP status
    procs,          \* SpecApprove: the in-flight requests
    lock,           \* SpecApprove: per ride, the process holding its row lock (0: none)
    for_update,     \* whether the database of DATABASE_URL locks rows on FOR UPDATE
    details,        \* table rides: Seq of [origin, destination, departure_time]
    is_read,        \* table notifications: the ids of the rows with is_read = True
    employees,      \* table employees: Seq of [email]
    before          \* SpecOverlap: rides and reservations when the requests arrived

\* the columns and rows that the reservation handlers never write
others == <<details, is_read, employees, before>>
vars == <<rides, reservations, notifications, capacity, resp, procs, lock, for_update, others>>
db == <<rides, reservations, notifications>>

(* ----------------------------- responses ------------------------------ *)
ERROR_CODES(code) ==
    CASE code = 400 -> "VALIDATION_ERROR"
      [] code = 401 -> "UNAUTHORIZED"
      [] code = 403 -> "FORBIDDEN"
      [] code = 404 -> "NOT_FOUND"
      [] code = 409 -> "CONFLICT"
      [] OTHER -> "INTERNAL_ERROR"

\* api.abort(code, message), and the outcome of a handler that reaches its return
Abort(code, message) == [code |-> code, message |-> message]
Return(code) == [code |-> code, message |-> "ok"]
Succeeded(result) == result.code \in {200, 201}

\* the marshalled row of a success response (a reservation, or a ride with
\* its driver as employee_id and its own id as ride_id)
Body(id, employee_id, ride_id, seats, status) ==
    [id |-> id, employee_id |-> employee_id, ride_id |-> ride_id,
     seats |-> seats, status |-> status]
NoBody == Body(0, 0, 0, 0, "")

\* what a request answers: the endpoint, the status, and the row (success) or
\* the error body (failure)
Response(op, result, body) ==
    [op |-> op, code |-> result.code,
     error |-> IF Succeeded(result) THEN "" ELSE ERROR_CODES(result.code),
     message |-> result.message,
     body |-> IF Succeeded(result) THEN body ELSE NoBody]

NoResponse == [op |-> "none", code |-> 0, error |-> "", message |-> "", body |-> NoBody]

(* ------------------------------- models -------------------------------- *)
Ride(driver_id, available_seats) ==
    [driver_id |-> driver_id,
     available_seats |-> available_seats, status |-> "ACTIVE"]

Reservation(employee_id, ride_id, seats_reserved, status) ==
    [employee_id |-> employee_id, ride_id |-> ride_id,
     seats_reserved |-> seats_reserved, status |-> status]

Notification(employee_id, ride_id, kind) ==
    [employee_id |-> employee_id, ride_id |-> ride_id, kind |-> kind]

\* the columns of a ride that the reservation handlers never read: what the
\* create request of a ride sends for them
NewDetails == [origin |-> "A", destination |-> "A", departure_time |-> 1]

\* what a deleted row leaves at its id: Reservation.query.get(id) is None
Deleted == Reservation(0, 0, 0, "DELETED")

\* what a deleted ride leaves at its id; Ride.query.get of it is None
DeletedRide == [driver_id |-> 0, available_seats |-> 0, status |-> "DELETED"]

RideExists(rs, id) == id \in 1..Len(rs) /\ rs[id] # DeletedRide
ReservationExists(rv, id) == id \in 1..Len(rv) /\ rv[id] # Deleted

RECURSIVE SumSeats(_, _, _, _)
\* sum(seats_reserved) over rows 1..n of rv with the given ride and status
SumSeats(rv, n, ride_id, status) ==
    IF n = 0 THEN 0
    ELSE SumSeats(rv, n - 1, ride_id, status)
         + (IF rv[n].ride_id = ride_id /\ rv[n].status = status
            THEN rv[n].seats_reserved ELSE 0)

ConfirmedSeats(rv, ride_id) == SumSeats(rv, Len(rv), ride_id, "CONFIRMED")

\* mutant: the duplicate query looks for PENDING reservations only
ExistingReservation_PendingOnly(rv, employee_id, ride_id) ==
    \E i \in 1..Len(rv) :
        /\ rv[i].employee_id = employee_id
        /\ rv[i].ride_id = ride_id
        /\ rv[i].status = "PENDING"

\* the duplicate query of create: an active reservation of the pair
ExistingReservation(rv, employee_id, ride_id) ==
    \E i \in 1..Len(rv) :
        /\ rv[i].employee_id = employee_id
        /\ rv[i].ride_id = ride_id
        /\ rv[i].status \in {"PENDING", "CONFIRMED"}


(* ------------------- POST /reservations/ (create) ---------------------- *)
\* seats_reserved = data.get('seats_reserved', 1)
SeatsRequested(seats) == IF seats.given THEN seats.val ELSE 1

\* mutant: create without the duplicate check
CreateCheck_NoDuplicateCheck(rs, rv, employee_id, ride_id, seats) ==
    IF seats.given /\ ~seats.isInt THEN Abort(400, "seats_reserved must be a positive integer")
    ELSE IF SeatsRequested(seats) <= 0 THEN Abort(400, "seats_reserved must be a positive integer")
    ELSE IF ride_id = 0 \/ employee_id = 0 THEN Abort(400, "ride_id and employee_id are required")
    ELSE IF ~RideExists(rs, ride_id) THEN Abort(404, "Ride not found")
    ELSE IF rs[ride_id].status = "COMPLETED" THEN Abort(400, "Cannot book a completed ride")
    ELSE IF rs[ride_id].status = "FULL" THEN Abort(400, "Ride is already full")
    ELSE IF SeatsRequested(seats) > rs[ride_id].available_seats
         THEN Abort(400, "Not enough seats available")
    ELSE Return(201)

\* mutant: create counts the seats of the PENDING reservations as taken
CreateCheck_HoldingPending(rs, rv, employee_id, ride_id, seats) ==
    IF seats.given /\ ~seats.isInt THEN Abort(400, "seats_reserved must be a positive integer")
    ELSE IF SeatsRequested(seats) <= 0 THEN Abort(400, "seats_reserved must be a positive integer")
    ELSE IF ride_id = 0 \/ employee_id = 0 THEN Abort(400, "ride_id and employee_id are required")
    ELSE IF ~RideExists(rs, ride_id) THEN Abort(404, "Ride not found")
    ELSE IF ExistingReservation(rv, employee_id, ride_id)
         THEN Abort(400, "You already have an active reservation")
    ELSE IF rs[ride_id].status = "COMPLETED" THEN Abort(400, "Cannot book a completed ride")
    ELSE IF rs[ride_id].status = "FULL" THEN Abort(400, "Ride is already full")
    ELSE IF SeatsRequested(seats) >
                rs[ride_id].available_seats - SumSeats(rv, Len(rv), ride_id, "PENDING")
         THEN Abort(400, "Not enough seats available")
    ELSE Return(201)

\* mutant: create without the validation of seats_reserved
CreateCheck_NoSeatValidation(rs, rv, employee_id, ride_id, seats) ==
    IF ride_id = 0 \/ employee_id = 0 THEN Abort(400, "ride_id and employee_id are required")
    ELSE IF ~RideExists(rs, ride_id) THEN Abort(404, "Ride not found")
    ELSE IF ExistingReservation(rv, employee_id, ride_id)
         THEN Abort(400, "You already have an active reservation")
    ELSE IF rs[ride_id].status = "COMPLETED" THEN Abort(400, "Cannot book a completed ride")
    ELSE IF rs[ride_id].status = "FULL" THEN Abort(400, "Ride is already full")
    ELSE IF SeatsRequested(seats) > rs[ride_id].available_seats
         THEN Abort(400, "Not enough seats available")
    ELSE Return(201)

CreateCheck(rs, rv, employee_id, ride_id, seats) ==
    IF seats.given /\ ~seats.isInt THEN Abort(400, "seats_reserved must be a positive integer")
    ELSE IF SeatsRequested(seats) <= 0 THEN Abort(400, "seats_reserved must be a positive integer")
    ELSE IF ride_id = 0 \/ employee_id = 0 THEN Abort(400, "ride_id and employee_id are required")
    ELSE IF ~RideExists(rs, ride_id) THEN Abort(404, "Ride not found")
    ELSE IF ExistingReservation(rv, employee_id, ride_id)
         THEN Abort(400, "You already have an active reservation")
    ELSE IF rs[ride_id].status = "COMPLETED" THEN Abort(400, "Cannot book a completed ride")
    ELSE IF rs[ride_id].status = "FULL" THEN Abort(400, "Ride is already full")
    ELSE IF SeatsRequested(seats) > rs[ride_id].available_seats
         THEN Abort(400, "Not enough seats available")
    ELSE Return(201)

\* mutant: a create notifies the requesting employee only
CreateNotifications_RiderOnly(ride, ride_id, employee_id) ==
    <<Notification(employee_id, ride_id, "pending")>>

\* the two notifications of a create: the requesting employee, then the driver
CreateNotifications(ride, ride_id, employee_id) ==
    <<Notification(employee_id, ride_id, "pending"),
      Notification(ride.driver_id, ride_id, "request")>>

\* mutant: create takes the seats from the ride at once
ReservationList_post_Deducting(employee_id, ride_id, seats) ==
    LET result == CreateCheck(rides, reservations, employee_id, ride_id, seats)
        id == Len(reservations) + 1
    IN
    /\ Succeeded(result) => Len(reservations) < MaxReservations
    /\ resp' = Response("create", result,
                        Body(id, employee_id, ride_id, SeatsRequested(seats), "PENDING"))
    /\ IF Succeeded(result)
       THEN /\ reservations' = Append(reservations,
                  Reservation(employee_id, ride_id, SeatsRequested(seats), "PENDING"))
            /\ notifications' = notifications \o
                  CreateNotifications(rides[ride_id], ride_id, employee_id)
            /\ rides' = [rides EXCEPT ![ride_id].available_seats = @ - SeatsRequested(seats)]
       ELSE UNCHANGED <<rides, reservations, notifications>>
    /\ UNCHANGED <<capacity, procs, lock, for_update, others>>

ReservationList_post(employee_id, ride_id, seats) ==
    LET result == CreateCheck(rides, reservations, employee_id, ride_id, seats)
        id == Len(reservations) + 1
    IN
    /\ Succeeded(result) => Len(reservations) < MaxReservations
    /\ resp' = Response("create", result,
                        Body(id, employee_id, ride_id, SeatsRequested(seats), "PENDING"))
    /\ IF Succeeded(result)
       THEN /\ reservations' = Append(reservations,
                  Reservation(employee_id, ride_id, SeatsRequested(seats), "PENDING"))
            /\ notifications' = notifications \o
                  CreateNotifications(rides[ride_id], ride_id, employee_id)
       ELSE UNCHANGED <<reservations, notifications>>
    /\ UNCHANGED <<rides, capacity, procs, lock, for_update, others>>

\* the row a reservation handler returns
ReservationBody(rv, id) ==
    Body(id, rv[id].employee_id, rv[id].ride_id, rv[id].seats_reserved, rv[id].status)

(* ---------------- PATCH /reservations/<id>/approve --------------------- *)
\* mutant: approve checks the status before the caller
ApproveCheck_StatusFirst(reservation, ride, caller) ==
    IF reservation.status # "PENDING" THEN Abort(400, "Cannot approve reservation with status")
    ELSE IF ride.driver_id # caller
         THEN Abort(403, "Only the ride driver can approve reservations")
    ELSE IF reservation.seats_reserved > ride.available_seats
         THEN Abort(400, "Not enough seats available")
    ELSE Return(200)

\* mutant: approve without the seat check
ApproveCheck_NoSeatCheck(reservation, ride, caller) ==
    IF ride.driver_id # caller THEN Abort(403, "Only the ride driver can approve reservations")
    ELSE IF reservation.status # "PENDING" THEN Abort(400, "Cannot approve reservation with status")
    ELSE Return(200)

\* mutant: approve without the PENDING check
ApproveCheck_NoStatusCheck(reservation, ride, caller) ==
    IF ride.driver_id # caller THEN Abort(403, "Only the ride driver can approve reservations")
    ELSE IF reservation.seats_reserved > ride.available_seats
         THEN Abort(400, "Not enough seats available")
    ELSE Return(200)

\* ride.driver_id of a ride that is None raises; except Exception answers 500
ApproveCheck(reservation, ride, caller) ==
    IF ride = DeletedRide THEN Abort(500, "Unexpected server error")
    ELSE IF ride.driver_id # caller THEN Abort(403, "Only the ride driver can approve reservations")
    ELSE IF reservation.status # "PENDING" THEN Abort(400, "Cannot approve reservation with status")
    ELSE IF reservation.seats_reserved > ride.available_seats
         THEN Abort(400, "Not enough seats available")
    ELSE Return(200)

\* mutant: approve never marks the ride FULL
ApproveRide_NeverFull(ride, reservation) ==
    [ride EXCEPT !.available_seats = @ - reservation.seats_reserved]

\* ride.available_seats -= seats_reserved; FULL if no seats left
ApproveRide(ride, reservation) ==
    LET left == ride.available_seats - reservation.seats_reserved IN
    [ride EXCEPT !.available_seats = left,
                 !.status = IF left = 0 THEN "FULL" ELSE @]

ApproveResult(rs, rv, caller, id) ==
    IF ~ReservationExists(rv, id) THEN Abort(404, "Reservation not found")
    ELSE ApproveCheck(rv[id], rs[rv[id].ride_id], caller)

ReservationApprove_patch(caller, id) ==
    LET result == ApproveResult(rides, reservations, caller, id) IN
    /\ IF Succeeded(result)
       THEN LET reservation == reservations[id]
                ride_id == reservation.ride_id
            IN /\ rides' = [rides EXCEPT ![ride_id] = ApproveRide(@, reservation)]
               /\ reservations' = [reservations EXCEPT ![id].status = "CONFIRMED"]
               /\ notifications' = Append(notifications,
                      Notification(reservation.employee_id, ride_id, "approved"))
               /\ resp' = Response("approve", result,
                                   ReservationBody(reservations', id))
       ELSE /\ UNCHANGED db
            /\ resp' = Response("approve", result, NoBody)
    /\ UNCHANGED <<capacity, procs, lock, for_update, others>>

(* ----------------- PATCH /reservations/<id>/reject --------------------- *)
\* mutant: reject checks the status before the caller
RejectCheck_StatusFirst(reservation, ride, caller) ==
    IF reservation.status # "PENDING" THEN Abort(400, "Cannot reject reservation with status")
    ELSE IF ride.driver_id # caller
         THEN Abort(403, "Only the ride driver can reject reservations")
    ELSE Return(200)

RejectCheck(reservation, ride, caller) ==
    IF ride = DeletedRide THEN Abort(500, "Unexpected server error")
    ELSE IF ride.driver_id # caller THEN Abort(403, "Only the ride driver can reject reservations")
    ELSE IF reservation.status # "PENDING" THEN Abort(400, "Cannot reject reservation with status")
    ELSE Return(200)

RejectResult(rs, rv, caller, id) ==
    IF ~ReservationExists(rv, id) THEN Abort(404, "Reservation not found")
    ELSE RejectCheck(rv[id], rs[rv[id].ride_id], caller)

\* mutant: reject gives the seats of the reservation to the ride
ReservationReject_patch_Restoring(caller, id) ==
    LET result == RejectResult(rides, reservations, caller, id) IN
    /\ IF Succeeded(result)
       THEN /\ reservations' = [reservations EXCEPT ![id].status = "REJECTED"]
            /\ rides' = [rides EXCEPT ![reservations[id].ride_id].available_seats =
                                          @ + reservations[id].seats_reserved]
            /\ notifications' = Append(notifications,
                   Notification(reservations[id].employee_id,
                                reservations[id].ride_id, "rejected"))
            /\ resp' = Response("reject", result,
                                ReservationBody(reservations', id))
       ELSE /\ UNCHANGED <<rides, reservations, notifications>>
            /\ resp' = Response("reject", result, NoBody)
    /\ UNCHANGED <<capacity, procs, lock, for_update, others>>

ReservationReject_patch(caller, id) ==
    LET result == RejectResult(rides, reservations, caller, id) IN
    /\ IF Succeeded(result)
       THEN /\ reservations' = [reservations EXCEPT ![id].status = "REJECTED"]
            /\ notifications' = Append(notifications,
                   Notification(reservations[id].employee_id,
                                reservations[id].ride_id, "rejected"))
            /\ resp' = Response("reject", result,
                                ReservationBody(reservations', id))
       ELSE /\ UNCHANGED <<reservations, notifications>>
            /\ resp' = Response("reject", result, NoBody)
    /\ UNCHANGED <<rides, capacity, procs, lock, for_update, others>>

(* ------------------ POST /reservations/<id>/cancel --------------------- *)
\* mutant: cancel checks the status before the caller
CancelCheck_StatusFirst(reservation, caller) ==
    IF reservation.status \in {"CANCELLED", "REJECTED"}
    THEN Abort(400, "Reservation is already cancelled or rejected")
    ELSE IF reservation.employee_id # caller
         THEN Abort(403, "Only the reservation creator can cancel it")
    ELSE Return(200)

CancelCheck(reservation, caller) ==
    IF reservation.employee_id # caller
    THEN Abort(403, "Only the reservation creator can cancel it")
    ELSE IF reservation.status \in {"CANCELLED", "REJECTED"}
         THEN Abort(400, "Reservation is already cancelled or rejected")
    ELSE Return(200)

\* mutant: cancel makes every ride that is not ACTIVE bookable again
CancelRide_Reopening(ride, reservation) ==
    IF reservation.status = "CONFIRMED"
    THEN [ride EXCEPT !.available_seats = @ + reservation.seats_reserved,
                      !.status = "ACTIVE"]
    ELSE ride

\* mutant: cancel gives the seats back whatever the status was
CancelRide_Always(ride, reservation) ==
    [ride EXCEPT !.available_seats = @ + reservation.seats_reserved,
                 !.status = IF @ = "FULL" THEN "ACTIVE" ELSE @]

\* seats go back only for a CONFIRMED reservation; a FULL ride is ACTIVE again
CancelRide(ride, reservation) ==
    IF reservation.status = "CONFIRMED"
    THEN [ride EXCEPT !.available_seats = @ + reservation.seats_reserved,
                      !.status = IF @ = "FULL" THEN "ACTIVE" ELSE @]
    ELSE ride

CancelResult(rv, caller, id) ==
    IF ~ReservationExists(rv, id) THEN Abort(404, "Reservation not found")
    ELSE CancelCheck(rv[id], caller)

ReservationCancel_post(caller, id) ==
    LET result == CancelResult(reservations, caller, id) IN
    /\ IF Succeeded(result)
       THEN LET reservation == reservations[id]
                ride_id == reservation.ride_id
            IN /\ rides' = IF RideExists(rides, ride_id)
                           THEN [rides EXCEPT ![ride_id] = CancelRide(@, reservation)]
                           ELSE rides
               /\ reservations' = [reservations EXCEPT ![id].status = "CANCELLED"]
               /\ resp' = Response("cancel", result,
                                   ReservationBody(reservations', id))
       ELSE /\ UNCHANGED <<rides, reservations>>
            /\ resp' = Response("cancel", result, NoBody)
    /\ UNCHANGED <<notifications, capacity, procs, lock, for_update, others>>

(* ---------------------- DELETE /reservations/<id> ---------------------- *)
\* any authenticated employee; the seats of the row go to the ride whatever
\* the status of the row, and the ride's status is not touched
DeleteResult(rv, id) ==
    IF ~ReservationExists(rv, id) THEN Abort(404, "Reservation not found")
    ELSE Return(200)

DeleteRide(ride, reservation) ==
    [ride EXCEPT !.available_seats = @ + reservation.seats_reserved]

ReservationDetail_delete(id) ==
    LET result == DeleteResult(reservations, id) IN
    /\ IF Succeeded(result)
       THEN LET reservation == reservations[id]
                ride_id == reservation.ride_id
            IN /\ rides' = IF RideExists(rides, ride_id)
                           THEN [rides EXCEPT ![ride_id] = DeleteRide(@, reservation)]
                           ELSE rides
               /\ reservations' = [reservations EXCEPT ![id] = Deleted]
       ELSE UNCHANGED <<rides, reservations>>
    /\ resp' = Response("delete", result, NoBody)
    /\ UNCHANGED <<notifications, capacity, procs, lock, for_update, others>>

(* --------------------------- POST /rides/ ------------------------------ *)
\* data.get('available_seats', 0) <= 0 is refused; the driver is the caller
RideCreateCheck(caller, seats) ==
    IF (IF seats.given THEN seats.val ELSE 0) <= 0
    THEN Abort(400, "available_seats must be greater than 0")
    ELSE IF caller \notin Employees THEN Abort(404, "Driver not found")
    ELSE Return(201)

RideBody(rs, id) == Body(id, rs[id].driver_id, id, rs[id].available_seats, rs[id].status)

RideList_post(caller, seats) ==
    LET result == RideCreateCheck(caller, seats) IN
    /\ Succeeded(result) => Len(rides) < MaxRides
    /\ IF Succeeded(result)
       THEN /\ rides' = Append(rides, Ride(caller, seats.val))
            /\ details' = Append(details, NewDetails)
            /\ capacity' = Append(capacity, seats.val)
            /\ resp' = Response("ride_create", result, RideBody(rides', Len(rides')))
       ELSE /\ UNCHANGED <<rides, details, capacity>>
            /\ resp' = Response("ride_create", result, NoBody)
    /\ UNCHANGED <<reservations, notifications, procs, lock, for_update,
                   is_read, employees, before>>

(* --------------------------- PUT /rides/<id> --------------------------- *)
\* The JSON keys of an update next to available_seats: "" is a key the body
\* does not carry.  departure_time is an ISO string.
NoFields == [origin |-> "", destination |-> "", departure_time |-> ""]
FieldInputs ==
    [origin : {"", "B"}, destination : {"", "B"},
     departure_time : {"", "2030-01-02T08:00", "tomorrow"}]

\* datetime.fromisoformat: the instant of an ISO string, 0 for a ValueError
fromisoformat(text) ==
    CASE text = "2030-01-01T08:00" -> 1
      [] text = "2030-01-02T08:00" -> 2
      [] OTHER -> 0

RideUpdateCheck(rs, rv, caller, id, fields, seats) ==
    IF ~RideExists(rs, id) THEN Abort(404, "Ride not found")
    ELSE IF rs[id].driver_id # caller THEN Abort(403, "Only the ride driver can update it")
    ELSE IF rs[id].status = "COMPLETED" THEN Abort(400, "Cannot update a completed ride")
    ELSE IF fields.departure_time # "" /\ fromisoformat(fields.departure_time) = 0
         THEN Abort(500, "Unexpected server error")
    ELSE IF seats.given /\ seats.val < ConfirmedSeats(rv, id)
         THEN Abort(400, "Cannot set seats below already reserved amount")
    ELSE Return(200)

\* mutant: an update to 0 seats marks the ride FULL
RideUpdate_FullAtZero(ride, seats) ==
    IF seats.given
    THEN [ride EXCEPT !.available_seats = seats.val,
                      !.status = IF seats.val > 0 /\ @ = "FULL" THEN "ACTIVE"
                                 ELSE IF seats.val = 0 THEN "FULL" ELSE @]
    ELSE ride

\* available_seats is assigned when the request carries it; a FULL ride with
\* seats again is ACTIVE
RideUpdate(ride, seats) ==
    IF seats.given
    THEN [ride EXCEPT !.available_seats = seats.val,
                      !.status = IF seats.val > 0 /\ @ = "FULL" THEN "ACTIVE" ELSE @]
    ELSE ride

\* ride.origin, ride.destination, ride.departure_time of the session's row
AssignFields(detail, fields) ==
    [origin |-> IF fields.origin # "" THEN fields.origin ELSE detail.origin,
     destination |-> IF fields.destination # "" THEN fields.destination
                     ELSE detail.destination,
     departure_time |-> IF fields.departure_time # ""
                        THEN fromisoformat(fields.departure_time)
                        ELSE detail.departure_time]

\* mutant: the fields assigned before the seat check reach the table although
\* the request aborts
RideDetail_put_NoRollback(caller, id, fields, seats) ==
    LET result == RideUpdateCheck(rides, reservations, caller, id, fields, seats) IN
    /\ IF Succeeded(result)
       THEN /\ rides' = [rides EXCEPT ![id] = RideUpdate(@, seats)]
            /\ details' = [details EXCEPT ![id] = AssignFields(@, fields)]
            /\ capacity' = IF seats.given
                           THEN [capacity EXCEPT ![id] = seats.val]
                           ELSE capacity
            /\ resp' = Response("ride_update", result, RideBody(rides', id))
       ELSE /\ UNCHANGED <<rides, capacity>>
            /\ details' = IF result.message = "Cannot set seats below already reserved amount"
                          THEN [details EXCEPT ![id] = AssignFields(@, fields)]
                          ELSE details
            /\ resp' = Response("ride_update", result, NoBody)
    /\ UNCHANGED <<reservations, notifications, procs, lock, for_update,
                   is_read, employees, before>>

\* The session's row takes the fields first and the seats after their check;
\* db.session.commit() writes the row, and an abort leaves the request without
\* a commit, so that the session is rolled back when the request ends.
RideDetail_put(caller, id, fields, seats) ==
    LET result == RideUpdateCheck(rides, reservations, caller, id, fields, seats) IN
    /\ IF Succeeded(result)
       THEN /\ rides' = [rides EXCEPT ![id] = RideUpdate(@, seats)]
            /\ details' = [details EXCEPT ![id] = AssignFields(@, fields)]
            /\ capacity' = IF seats.given
                           THEN [capacity EXCEPT ![id] = seats.val]
                           ELSE capacity
            /\ resp' = Response("ride_update", result, RideBody(rides', id))
       ELSE /\ UNCHANGED <<rides, details, capacity>>
            /\ resp' = Response("ride_update", result, NoBody)
    /\ UNCHANGED <<reservations, notifications, procs, lock, for_update,
                   is_read, employees, before>>

(* --------------------- PATCH /rides/<id>/complete ---------------------- *)
\* mutant: complete without the COMPLETED check
RideCompleteCheck_NoCompletedCheck(rs, caller, id) ==
    IF ~RideExists(rs, id) THEN Abort(404, "Ride not found")
    ELSE IF rs[id].driver_id # caller THEN Abort(403, "Only the ride driver can complete it")
    ELSE Return(200)

RideCompleteCheck(rs, caller, id) ==
    IF ~RideExists(rs, id) THEN Abort(404, "Ride not found")
    ELSE IF rs[id].driver_id # caller THEN Abort(403, "Only the ride driver can complete it")
    ELSE IF rs[id].status = "COMPLETED" THEN Abort(400, "Ride is already completed")
    ELSE Return(200)

RideComplete_patch(caller, id) ==
    LET result == RideCompleteCheck(rides, caller, id) IN
    /\ IF Succeeded(result)
       THEN /\ rides' = [rides EXCEPT ![id].status = "COMPLETED"]
            /\ resp' = Response("ride_complete", result, RideBody(rides', id))
       ELSE /\ UNCHANGED rides
            /\ resp' = Response("ride_complete", result, NoBody)
    /\ UNCHANGED <<reservations, notifications, capacity, procs, lock, for_update, others>>

(* ------------------- one request at a time: Spec ----------------------- *)
\* ids sent in requests: every row and one id that names no row; a create
\* body may also leave ride_id or employee_id out (0)
RideIdInputs == 1..(Len(rides) + 1)
ReservationIdInputs == 1..(Len(reservations) + 1)
EmployeeIdInputs == 0..NumCallers
IntInputs == {Absent} \cup {IntVal(v) : v \in SeatVals}

Init ==
    /\ rides = <<>>
    /\ reservations = <<>>
    /\ notifications = <<>>
    /\ capacity = <<>>
    /\ resp = NoResponse
    /\ procs = <<>>
    /\ lock = <<>>
    /\ for_update = FALSE
    /\ details = <<>>
    /\ is_read = {}
    /\ employees = <<>>
    /\ before = <<>>

Next ==
    \/ \E c \in Callers, s \in IntInputs : RideList_post(c, s)
    \/ \E c \in Callers, r \in RideIdInputs, s \in IntInputs :
           RideDetail_put(c, r, NoFields, s)
    \/ \E c \in Callers, r \in RideIdInputs : RideComplete_patch(c, r)
    \/ \E e \in EmployeeIdInputs, r \in {0} \cup RideIdInputs, s \in SeatInputs :
           ReservationList_post(e, r, s)
    \/ \E c \in Callers, i \in ReservationIdInputs : ReservationApprove_patch(c, i)
    \/ \E c \in Callers, i \in ReservationIdInputs : ReservationReject_patch(c, i)
    \/ \E c \in Callers, i \in ReservationIdInputs : ReservationCancel_post(c, i)

Spec == Init /\ [][Next]_vars

(* --------------- ride updates with every field: SpecRideUpdate --------- *)
\* The driver's side of a ride: offered, booked and approved, updated with any
\* of its fields, completed.
NextRideUpdate ==
    \/ \E c \in Callers, s \in IntInputs : RideList_post(c, s)
    \/ \E c \in Callers, r \in RideIdInputs, f \in FieldInputs, s \in IntInputs :
           RideDetail_put(c, r, f, s)
    \/ \E c \in Callers, r \in RideIdInputs : RideComplete_patch(c, r)
    \/ \E e \in Callers, r \in RideIdInputs, s \in SeatInputs :
           ReservationList_post(e, r, s)
    \/ \E c \in Callers, i \in ReservationIdInputs : ReservationApprove_patch(c, i)

SpecRideUpdate == Init /\ [][NextRideUpdate]_vars

(* ------------- reservations with their deletion: SpecDelete ------------ *)
NextDelete ==
    \/ \E c \in Callers, s \in IntInputs : RideList_post(c, s)
    \/ \E e \in Callers, r \in RideIdInputs, s \in SeatInputs :
           ReservationList_post(e, r, s)
    \/ \E c \in Callers, i \in ReservationIdInputs : ReservationApprove_patch(c, i)
    \/ \E c \in Callers, i \in ReservationIdInputs : ReservationReject_patch(c, i)
    \/ \E c \in Callers, i \in ReservationIdInputs : ReservationCancel_post(c, i)
    \/ \E i \in ReservationIdInputs : ReservationDetail_delete(i)

SpecDelete == Init /\ [][NextDelete]_vars

(* ---------------- the notification ledger: SpecNotifications ----------- *)
\* what a deleted notification leaves at its id
DeletedNotification == Notification(0, 0, "DELETED")

NotificationExists(ns, id) == id \in 1..Len(ns) /\ ns[id] # DeletedNotification
NotificationIdInputs == 1..(Len(notifications) + 1)

\* the row a notification handler returns (the employee of the row and is_read)
NotificationBody(ns, read, id) ==
    Body(id, ns[id].employee_id, ns[id].ride_id, 0,
         IF id \in read THEN "read" ELSE "unread")

\* POST /notifications/: employee_id 0 and message FALSE are keys left out
NotificationCreateCheck(employee_id, message) ==
    IF employee_id = 0 \/ ~message THEN Abort(400, "employee_id and message are required")
    ELSE Return(201)

NotificationCreate_post(employee_id, message) ==
    LET result == NotificationCreateCheck(employee_id, message) IN
    /\ Succeeded(result) => Len(notifications) < MaxNotifications
    /\ IF Succeeded(result)
       THEN /\ notifications' = Append(notifications, Notification(employee_id, 0, "info"))
            /\ resp' = Response("notification_create", result,
                   NotificationBody(notifications', is_read, Len(notifications')))
       ELSE /\ UNCHANGED notifications
            /\ resp' = Response("notification_create", result, NoBody)
    /\ UNCHANGED <<rides, reservations, capacity, procs, lock, for_update, others>>

\* PATCH /notifications/<id>/read of backend/app/api/notifications.py
NotificationReadCheck(ns, caller, id) ==
    IF ~NotificationExists(ns, id) THEN Abort(404, "Notification not found")
    ELSE IF ns[id].employee_id # caller
         THEN Abort(403, "Not authorized to access this notification")
    ELSE Return(200)

NotificationRead_patch(caller, id) ==
    LET result == NotificationReadCheck(notifications, caller, id) IN
    /\ IF Succeeded(result)
       THEN /\ is_read' = is_read \cup {id}
            /\ resp' = Response("notification_read", result,
                                NotificationBody(notifications, is_read', id))
       ELSE /\ UNCHANGED is_read
            /\ resp' = Response("notification_read", result, NoBody)
    /\ UNCHANGED <<rides, reservations, notifications, capacity, procs, lock,
                   for_update, details, employees, before>>

\* PATCH /notifications/<id>/read of app/api/notifications.py: the caller is
\* not read from the token
app_NotificationReadCheck(ns, caller, id) ==
    IF ~NotificationExists(ns, id) THEN Abort(404, "Notification not found")
    ELSE Return(200)

app_NotificationRead_patch(caller, id) ==
    LET result == app_NotificationReadCheck(notifications, caller, id) IN
    /\ IF Succeeded(result)
       THEN /\ is_read' = is_read \cup {id}
            /\ resp' = Response("notification_read", result,
                                NotificationBody(notifications, is_read', id))
       ELSE /\ UNCHANGED is_read
            /\ resp' = Response("notification_read", result, NoBody)
    /\ UNCHANGED <<rides, reservations, notifications, capacity, procs, lock,
                   for_update, details, employees, before>>

\* DELETE /notifications/<id>
NotificationDetail_delete(id) ==
    LET result == IF ~NotificationExists(notifications, id)
                  THEN Abort(404, "Notification not found") ELSE Return(200)
    IN
    /\ IF Succeeded(result)
       THEN /\ notifications' = [notifications EXCEPT ![id] = DeletedNotification]
            /\ is_read' = is_read \ {id}
       ELSE UNCHANGED <<notifications, is_read>>
    /\ resp' = Response("notification_delete", result, NoBody)
    /\ UNCHANGED <<rides, reservations, capacity, procs, lock, for_update,
                   details, employees, before>>

NextNotifications ==
    \/ \E e \in EmployeeIdInputs, m \in BOOLEAN : NotificationCreate_post(e, m)
    \/ \E c \in Callers, n \in NotificationIdInputs : NotificationRead_patch(c, n)
    \/ \E c \in Callers, n \in NotificationIdInputs : app_NotificationRead_patch(c, n)
    \/ \E n \in NotificationIdInputs : NotificationDetail_delete(n)

SpecNotifications == Init /\ [][NextNotifications]_vars

(* ---------------- overlapping approve requests: SpecApprove ------------- *)
\* Each request has its own session: the rows it has read are snapshots, and
\* its writes reach the tables when it commits.  with_for_update() asks for
\* SELECT ... FOR UPDATE.  A database with row locks (PostgreSQL, MySQL) holds
\* the lock from that query until the session commits or, on an abort, is
\* rolled back at the end of the request; SQLite, the database of config.py
\* unless DATABASE_URL names another, has no FOR UPDATE and the query is a
\* plain SELECT.
NoReservation == Reservation(0, 0, 0, "")
NoRide == [driver_id |-> 0, available_seats |-> 0, status |-> ""]
NoResult == Abort(0, "")

Request(op, caller, id) ==
    [op |-> op, caller |-> caller, id |-> id, pc |-> "start",
     reservation |-> NoReservation, ride |-> NoRide, result |-> NoResult]

ProcIds == 1..Len(procs)

\* SELECT ... FOR UPDATE can return the row: no other session holds its lock
LockFree(l, ride_id) == for_update => l[ride_id] = 0

\* the databases that have FOR UPDATE are the ones that enforce foreign keys
ForeignKeys == for_update

\* the lock a finished request leaves behind: none
Release(l, p) == [r \in DOMAIN l |-> IF l[r] = p THEN 0 ELSE l[r]]

\* mutant: the commit adds the change of the session to the table's value
\* (UPDATE rides SET available_seats = available_seats - n)
FlushRide_Relative(current, read, written) ==
    [current EXCEPT
        !.available_seats = @ + (written.available_seats - read.available_seats),
        !.status = IF written.status # read.status THEN written.status ELSE @]

\* mutant: the commit writes every column of the session's row
FlushRide_AllColumns(current, read, written) == written

\* UPDATE rides SET <changed columns>: the session writes the columns it changed
FlushRide(current, read, written) ==
    [current EXCEPT
        !.available_seats = IF written.available_seats # read.available_seats
                            THEN written.available_seats ELSE @,
        !.status = IF written.status # read.status THEN written.status ELSE @]

\* reservation = Reservation.query.get(id), before the ride is locked
ApproveGetReservation(p) ==
    LET req == procs[p] IN
    /\ req.op = "approve" /\ req.pc = "start"
    /\ IF ReservationExists(reservations, req.id)
       THEN /\ procs' = [procs EXCEPT ![p].reservation = reservations[req.id],
                                      ![p].pc = "lock"]
            /\ UNCHANGED resp
       ELSE /\ procs' = [procs EXCEPT ![p].result = Abort(404, "Reservation not found"),
                                      ![p].pc = "done"]
            /\ resp' = Response("approve", Abort(404, "Reservation not found"), NoBody)
    /\ UNCHANGED <<db, capacity, lock, for_update, others>>

\* ride = Ride.query.with_for_update().get(reservation.ride_id)
ApproveLockRide(p) ==
    LET req == procs[p]
        ride_id == req.reservation.ride_id
    IN
    /\ req.op = "approve" /\ req.pc = "lock"
    /\ LockFree(lock, ride_id)
    /\ lock' = IF for_update THEN [lock EXCEPT ![ride_id] = p] ELSE lock
    /\ procs' = [procs EXCEPT ![p].ride = rides[ride_id], ![p].pc = "check"]
    /\ UNCHANGED <<db, capacity, resp, for_update, others>>

\* mutant: a refused approve keeps the row lock of its transaction
ApproveCommit_KeepsLock(p) ==
    LET req == procs[p]
        ride_id == req.reservation.ride_id
        result == ApproveCheck(req.reservation, req.ride, req.caller)
    IN
    /\ req.op = "approve" /\ req.pc = "check"
    /\ procs' = [procs EXCEPT ![p].result = result, ![p].pc = "done"]
    /\ IF Succeeded(result)
       THEN /\ lock' = Release(lock, p)
            /\ rides' = [rides EXCEPT ![ride_id] =
                            FlushRide(@, req.ride, ApproveRide(req.ride, req.reservation))]
            /\ reservations' = [reservations EXCEPT ![req.id].status = "CONFIRMED"]
            /\ notifications' = Append(notifications,
                   Notification(req.reservation.employee_id, ride_id, "approved"))
            /\ resp' = Response("approve", result, ReservationBody(reservations', req.id))
       ELSE /\ UNCHANGED <<db, lock>>
            /\ resp' = Response("approve", result, NoBody)
    /\ UNCHANGED <<capacity, for_update, others>>

\* the checks, the writes on the session's rows and db.session.commit()
ApproveCommit(p) ==
    LET req == procs[p]
        ride_id == req.reservation.ride_id
        result == ApproveCheck(req.reservation, req.ride, req.caller)
    IN
    /\ req.op = "approve" /\ req.pc = "check"
    /\ procs' = [procs EXCEPT ![p].result = result, ![p].pc = "done"]
    /\ lock' = Release(lock, p)
    /\ IF Succeeded(result)
       THEN /\ rides' = [rides EXCEPT ![ride_id] =
                            FlushRide(@, req.ride, ApproveRide(req.ride, req.reservation))]
            /\ reservations' = [reservations EXCEPT ![req.id].status = "CONFIRMED"]
            /\ notifications' = Append(notifications,
                   Notification(req.reservation.employee_id, ride_id, "approved"))
            /\ resp' = Response("approve", result, ReservationBody(reservations', req.id))
       ELSE /\ UNCHANGED db
            /\ resp' = Response("approve", result, NoBody)
    /\ UNCHANGED <<capacity, for_update, others>>

\* a ride of employee 1 with c seats and n one-seat PENDING reservations of
\* employees 2..n+1, as c and n creates leave it
RECURSIVE PendingRequests(_)
PendingRequests(n) ==
    IF n = 0 THEN <<>>
    ELSE Append(PendingRequests(n - 1), Reservation(n + 1, 1, 1, "PENDING"))

RECURSIVE RequestNotifications(_)
RequestNotifications(n) ==
    IF n = 0 THEN <<>>
    ELSE RequestNotifications(n - 1) \o CreateNotifications(Ride(1, 0), 1, n + 1)

\* the driver approves each of the n reservations, all at once
InitApprove ==
    \E c \in 1..MaxSeats : \E n \in (c + 1)..NumProcs :
        /\ rides = <<Ride(1, c)>>
        /\ capacity = <<c>>
        /\ reservations = PendingRequests(n)
        /\ notifications = RequestNotifications(n)
        /\ resp = Response("create", Return(201), ReservationBody(PendingRequests(n), n))
        /\ procs = [p \in 1..n |-> Request("approve", 1, p)]
        /\ lock = <<0>>
        /\ for_update \in BOOLEAN
        /\ details = <<NewDetails>>
        /\ is_read = {}
        /\ employees = <<>>
        /\ before = <<>>

NextApprove ==
    \/ \E p \in ProcIds : ApproveGetReservation(p)
    \/ \E p \in ProcIds : ApproveLockRide(p)
    \/ \E p \in ProcIds : ApproveCommit(p)

SpecApprove == InitApprove /\ [][NextApprove]_vars

(* ------ overlapping approve requests on one reservation: SpecApproveSame ---- *)
\* a ride of employee 1 with c seats and one PENDING reservation of employee 2
\* for s of them, which the driver approves n times at once
InitApproveSame ==
    \E c \in 1..MaxSeats : \E s \in 1..c : \E n \in 2..NumProcs :
        /\ rides = <<Ride(1, c)>>
        /\ capacity = <<c>>
        /\ reservations = <<Reservation(2, 1, s, "PENDING")>>
        /\ notifications = CreateNotifications(Ride(1, c), 1, 2)
        /\ resp = Response("create", Return(201),
                           ReservationBody(<<Reservation(2, 1, s, "PENDING")>>, 1))
        /\ procs = [p \in 1..n |-> Request("approve", 1, 1)]
        /\ lock = <<0>>
        /\ for_update \in BOOLEAN
        /\ details = <<NewDetails>>
        /\ is_read = {}
        /\ employees = <<>>
        /\ before = <<>>

SpecApproveSame == InitApproveSame /\ [][NextApprove]_vars

(* ------------- overlapping requests of every kind: SpecOverlap --------- *)
\* Every handler is a process with its own session: each query reads what is
\* committed when it runs, the rows it returns stay as read for the rest of
\* the request, and db.session.commit() writes the changed columns of the
\* session's rows (FlushRide).  Only approve asks for a row lock; on a
\* database with row locks, a commit that writes the ride row waits for it.
\* seats: the seats_reserved of a create, the available_seats of an update.
OverlapRequest(op, caller, id, seats) ==
    [op |-> op, caller |-> caller, id |-> id, seats |-> seats, pc |-> "start",
     reservation |-> NoReservation, ride |-> NoRide, result |-> NoResult]

\* the request ends: its answer, and the row lock it may hold is released
Finish(p, result) == [procs EXCEPT ![p].result = result, ![p].pc = "done"]

(* reject: reservations.py 294-320 *)
RejectGetReservation(p) ==
    LET req == procs[p] IN
    /\ req.op = "reject" /\ req.pc = "start"
    /\ IF ReservationExists(reservations, req.id)
       THEN /\ procs' = [procs EXCEPT ![p].reservation = reservations[req.id],
                                      ![p].ride = rides[reservations[req.id].ride_id],
                                      ![p].pc = "check"]
            /\ UNCHANGED resp
       ELSE /\ procs' = Finish(p, Abort(404, "Reservation not found"))
            /\ resp' = Response("reject", Abort(404, "Reservation not found"), NoBody)
    /\ UNCHANGED <<db, capacity, lock, for_update, others>>

RejectCommit(p) ==
    LET req == procs[p]
        result == RejectCheck(req.reservation, req.ride, req.caller)
    IN
    /\ req.op = "reject" /\ req.pc = "check"
    /\ procs' = Finish(p, result)
    /\ IF Succeeded(result)
       THEN /\ reservations' = [reservations EXCEPT ![req.id].status = "REJECTED"]
            /\ notifications' = Append(notifications,
                   Notification(req.reservation.employee_id,
                                req.reservation.ride_id, "rejected"))
            /\ resp' = Response("reject", result, ReservationBody(reservations', req.id))
       ELSE /\ UNCHANGED <<reservations, notifications>>
            /\ resp' = Response("reject", result, NoBody)
    /\ UNCHANGED <<rides, capacity, lock, for_update, others>>

(* cancel: reservations.py 160-187 *)
CancelGetReservation(p) ==
    LET req == procs[p]
        result == CancelResult(reservations, req.caller, req.id)
    IN
    /\ req.op = "cancel" /\ req.pc = "start"
    /\ IF Succeeded(result)
       THEN /\ procs' = [procs EXCEPT
                   ![p].reservation = reservations[req.id],
                   ![p].pc = IF reservations[req.id].status = "CONFIRMED"
                             THEN "ride" ELSE "commit"]
            /\ UNCHANGED resp
       ELSE /\ procs' = Finish(p, result)
            /\ resp' = Response("cancel", result, NoBody)
    /\ UNCHANGED <<db, capacity, lock, for_update, others>>

\* ride = Ride.query.get(reservation.ride_id), for a CONFIRMED reservation
CancelGetRide(p) ==
    LET req == procs[p] IN
    /\ req.op = "cancel" /\ req.pc = "ride"
    /\ procs' = [procs EXCEPT ![p].ride = rides[req.reservation.ride_id],
                              ![p].pc = "commit"]
    /\ UNCHANGED <<db, capacity, resp, lock, for_update, others>>

CancelCommit(p) ==
    LET req == procs[p]
        ride_id == req.reservation.ride_id
        restores == req.reservation.status = "CONFIRMED"
    IN
    /\ req.op = "cancel" /\ req.pc = "commit"
    /\ restores => LockFree(lock, ride_id)
    /\ procs' = Finish(p, Return(200))
    /\ rides' = IF restores
                THEN [rides EXCEPT ![ride_id] =
                         FlushRide(@, req.ride, CancelRide(req.ride, req.reservation))]
                ELSE rides
    /\ reservations' = [reservations EXCEPT ![req.id].status = "CANCELLED"]
    /\ resp' = Response("cancel", Return(200), ReservationBody(reservations', req.id))
    /\ UNCHANGED <<notifications, capacity, lock, for_update, others>>

(* create: reservations.py 59-127; caller is the employee_id of the body *)
CreateGetRide(p) ==
    LET req == procs[p]
        result == CreateCheck(rides, <<>>, req.caller, req.id, req.seats)
    IN
    /\ req.op = "create" /\ req.pc = "start"
    /\ IF RideExists(rides, req.id) /\ result.code # 404
          /\ result.message # "ride_id and employee_id are required"
          /\ result.message # "seats_reserved must be a positive integer"
       THEN /\ procs' = [procs EXCEPT ![p].ride = rides[req.id], ![p].pc = "check"]
            /\ UNCHANGED resp
       ELSE /\ procs' = Finish(p, result)
            /\ resp' = Response("create", result, NoBody)
    /\ UNCHANGED <<db, capacity, lock, for_update, others>>

\* the duplicate query, and the checks on the ride as it was read
CreateQueryExisting(p) ==
    LET req == procs[p]
        result == CreateCheck([rides EXCEPT ![req.id] = req.ride], reservations,
                              req.caller, req.id, req.seats)
    IN
    /\ req.op = "create" /\ req.pc = "check"
    /\ IF Succeeded(result)
       THEN /\ procs' = [procs EXCEPT ![p].pc = "commit"]
            /\ UNCHANGED resp
       ELSE /\ procs' = Finish(p, result)
            /\ resp' = Response("create", result, NoBody)
    /\ UNCHANGED <<db, capacity, lock, for_update, others>>

\* the INSERT of a reservation of a ride that was deleted after it was read
\* violates the foreign key reservations.ride_id where the database enforces
\* foreign keys (PostgreSQL, MySQL); SQLite as config.py opens it does not
CreateCommit(p) ==
    LET req == procs[p]
        row == Reservation(req.caller, req.id, SeatsRequested(req.seats), "PENDING")
        result == IF ForeignKeys /\ ~RideExists(rides, req.id)
                  THEN Abort(500, "Unexpected server error") ELSE Return(201)
    IN
    /\ req.op = "create" /\ req.pc = "commit"
    /\ procs' = Finish(p, result)
    /\ IF Succeeded(result)
       THEN /\ reservations' = Append(reservations, row)
            /\ notifications' = notifications
                                   \o CreateNotifications(req.ride, req.id, req.caller)
            /\ resp' = Response("create", result,
                                ReservationBody(reservations', Len(reservations')))
       ELSE /\ UNCHANGED <<reservations, notifications>>
            /\ resp' = Response("create", result, NoBody)
    /\ UNCHANGED <<rides, capacity, lock, for_update, others>>

(* ride update: backend rides.py 242-283, with available_seats only *)
UpdateGetRide(p) ==
    LET req == procs[p]
        result == RideUpdateCheck(rides, <<>>, req.caller, req.id, NoFields, Absent)
    IN
    /\ req.op = "ride_update" /\ req.pc = "start"
    /\ IF Succeeded(result)
       THEN /\ procs' = [procs EXCEPT ![p].ride = rides[req.id], ![p].pc = "commit"]
            /\ UNCHANGED resp
       ELSE /\ procs' = Finish(p, result)
            /\ resp' = Response("ride_update", result, NoBody)
    /\ UNCHANGED <<db, capacity, lock, for_update, others>>

\* the sum of the CONFIRMED seats, the seat check, the assignment and the commit
UpdateCommit(p) ==
    LET req == procs[p]
        result == RideUpdateCheck([rides EXCEPT ![req.id] = req.ride], reservations,
                                  req.caller, req.id, NoFields, req.seats)
    IN
    /\ req.op = "ride_update" /\ req.pc = "commit"
    /\ Succeeded(result) => LockFree(lock, req.id)
    /\ procs' = Finish(p, result)
    /\ IF Succeeded(result)
       THEN /\ rides' = [rides EXCEPT ![req.id] =
                            FlushRide(@, req.ride, RideUpdate(req.ride, req.seats))]
            /\ capacity' = IF req.seats.given
                           THEN [capacity EXCEPT ![req.id] = req.seats.val]
                           ELSE capacity
            /\ resp' = Response("ride_update", result, RideBody(rides', req.id))
       ELSE /\ UNCHANGED <<rides, capacity>>
            /\ resp' = Response("ride_update", result, NoBody)
    /\ UNCHANGED <<reservations, notifications, lock, for_update, others>>

\* db.session.commit() raises (the database fails): the except clause rolls
\* the session back and aborts with 500, and nothing of the request is stored
(* ride create: backend rides.py 162-191; it reads no row of a ride, so it
   is one step *)
RideCreate(p) ==
    LET req == procs[p]
        result == RideCreateCheck(req.caller, req.seats)
    IN
    /\ req.op = "ride_create" /\ req.pc = "start"
    /\ procs' = Finish(p, result)
    /\ IF Succeeded(result)
       THEN /\ rides' = Append(rides, Ride(req.caller, req.seats.val))
            /\ details' = Append(details, NewDetails)
            /\ capacity' = Append(capacity, req.seats.val)
            /\ lock' = Append(lock, 0)
            /\ resp' = Response("ride_create", result, RideBody(rides', Len(rides')))
       ELSE /\ UNCHANGED <<rides, details, capacity, lock>>
            /\ resp' = Response("ride_create", result, NoBody)
    /\ UNCHANGED <<reservations, notifications, for_update, is_read, employees, before>>

\* mutant: the failed request is not rolled back; what it flushed stays
CommitFails_NoRollback(p) ==
    LET req == procs[p]
        result == Abort(500, "Unexpected server error")
    IN
    /\ \/ /\ req.op = "approve" /\ req.pc = "check"
          /\ Succeeded(ApproveCheck(req.reservation, req.ride, req.caller))
       \/ /\ req.op = "reject" /\ req.pc = "check"
          /\ Succeeded(RejectCheck(req.reservation, req.ride, req.caller))
       \/ req.op = "create" /\ req.pc = "commit"
    /\ procs' = Finish(p, result)
    /\ lock' = Release(lock, p)
    /\ resp' = Response(req.op, result, NoBody)
    /\ reservations' =
          IF req.op = "create"
          THEN Append(reservations,
                      Reservation(req.caller, req.id, SeatsRequested(req.seats), "PENDING"))
          ELSE [reservations EXCEPT ![req.id].status =
                   IF req.op = "approve" THEN "CONFIRMED" ELSE "REJECTED"]
    /\ UNCHANGED <<rides, notifications, capacity, for_update, others>>

CommitFails(p) ==
    LET req == procs[p]
        result == Abort(500, "Unexpected server error")
    IN
    /\ \/ /\ req.op = "approve" /\ req.pc = "check"
          /\ Succeeded(ApproveCheck(req.reservation, req.ride, req.caller))
       \/ /\ req.op = "reject" /\ req.pc = "check"
          /\ Succeeded(RejectCheck(req.reservation, req.ride, req.caller))
       \/ req.op = "create" /\ req.pc = "commit"
    /\ procs' = Finish(p, result)
    /\ lock' = Release(lock, p)
    /\ resp' = Response(req.op, result, NoBody)
    /\ UNCHANGED <<db, capacity, for_update, others>>

\* The requests arrive at a ride of employee 1, offered with c seats, which
\* employees 2 and 3 have booked: each reservation is PENDING or CONFIRMED,
\* and the ride has the seats that the CONFIRMED ones leave.
BookedReservations(c) ==
    {rv \in UNION {[1..n -> [employee_id : {2, 3}, ride_id : {1},
                             seats_reserved : 1..c,
                             status : {"PENDING", "CONFIRMED"}]] : n \in 0..2} :
        /\ \A i \in DOMAIN rv : rv[i].employee_id = i + 1
        /\ ConfirmedSeats(rv, 1) <= c}

BookedRide(c, rv) ==
    LET left == c - ConfirmedSeats(rv, 1) IN
    [Ride(1, left) EXCEPT !.status = IF left = 0 THEN "FULL" ELSE "ACTIVE"]

RECURSIVE BookedNotifications(_, _)
BookedNotifications(rv, n) ==
    IF n = 0 THEN <<>>
    ELSE BookedNotifications(rv, n - 1)
         \o CreateNotifications(Ride(1, 0), 1, rv[n].employee_id)
         \o (IF rv[n].status = "CONFIRMED"
             THEN <<Notification(rv[n].employee_id, 1, "approved")>> ELSE <<>>)

\* the requests that can overlap: the driver approves or rejects a
\* reservation, its rider cancels it, employee 4 or a rider asks for a seat,
\* the driver sets available_seats or offers another ride
OverlapRequests(rv) ==
    {OverlapRequest(op, 1, i, Absent) : op \in {"approve", "reject"}, i \in DOMAIN rv}
    \cup {OverlapRequest("cancel", rv[i].employee_id, i, Absent) : i \in DOMAIN rv}
    \cup {OverlapRequest("create", e, 1, IntVal(1)) : e \in {2, 4}}
    \cup {OverlapRequest("ride_update", 1, 1, IntVal(n)) : n \in (-1)..MaxSeats}
    \cup {OverlapRequest("ride_create", 1, 0, IntVal(n)) : n \in {-1, 1}}

InitOverlap ==
    \E c \in 1..MaxSeats : \E rv \in BookedReservations(c) :
        /\ rides = <<BookedRide(c, rv)>>
        /\ capacity = <<c>>
        /\ reservations = rv
        /\ notifications = BookedNotifications(rv, Len(rv))
        /\ resp = NoResponse
        /\ procs \in [1..NumOverlap -> OverlapRequests(rv)]
        /\ lock = <<0>>
        /\ for_update \in BOOLEAN
        /\ details = <<NewDetails>>
        /\ is_read = {}
        /\ employees = <<>>
        /\ before = [rides |-> rides, reservations |-> reservations]

NextOverlap ==
    \/ \E p \in ProcIds : ApproveGetReservation(p)
    \/ \E p \in ProcIds : ApproveLockRide(p)
    \/ \E p \in ProcIds : ApproveCommit(p)
    \/ \E p \in ProcIds : RejectGetReservation(p)
    \/ \E p \in ProcIds : RejectCommit(p)
    \/ \E p \in ProcIds : CancelGetReservation(p)
    \/ \E p \in ProcIds : CancelGetRide(p)
    \/ \E p \in ProcIds : CancelCommit(p)
    \/ \E p \in ProcIds : CreateGetRide(p)
    \/ \E p \in ProcIds : CreateQueryExisting(p)
    \/ \E p \in ProcIds : CreateCommit(p)
    \/ \E p \in ProcIds : UpdateGetRide(p)
    \/ \E p \in ProcIds : UpdateCommit(p)
    \/ \E p \in ProcIds : RideCreate(p)
    \/ \E p \in ProcIds : CommitFails(p)

SpecOverlap == InitOverlap /\ [][NextOverlap]_vars

\* Each request runs on a thread of the server and goes on whenever it can:
\* a request that waits for a row lock goes on once the lock is free.
RequestStep(p) ==
    \/ ApproveGetReservation(p) \/ ApproveLockRide(p) \/ ApproveCommit(p)
    \/ RejectGetReservation(p) \/ RejectCommit(p)
    \/ CancelGetReservation(p) \/ CancelGetRide(p) \/ CancelCommit(p)
    \/ CreateGetRide(p) \/ CreateQueryExisting(p) \/ CreateCommit(p)
    \/ UpdateGetRide(p) \/ UpdateCommit(p)
    \/ RideCreate(p)
    \/ CommitFails(p)

SpecOverlapFair ==
    /\ InitOverlap /\ [][NextOverlap]_vars
    /\ \A p \in 1..NumOverlap : WF_vars(RequestStep(p))

(* ---------------- ride delete among overlapping requests ---------------- *)
\* DELETE /rides/<id>: backend rides.py 221-228 (app/api/rides.py 93-100 is
\* the same code).  Any authenticated employee may call it.
NumDeleters == 3

RideDeleteGet(p) ==
    LET req == procs[p] IN
    /\ req.op = "ride_delete" /\ req.pc = "start"
    /\ IF RideExists(rides, req.id)
       THEN /\ procs' = [procs EXCEPT ![p].ride = rides[req.id], ![p].pc = "commit"]
            /\ UNCHANGED resp
       ELSE /\ procs' = Finish(p, Abort(404, "Ride not found"))
            /\ resp' = Response("ride_delete", Abort(404, "Ride not found"), NoBody)
    /\ UNCHANGED <<db, capacity, lock, for_update, others>>

\* Ride.reservations has no delete cascade: the flush of db.session.delete
\* loads the reservations of the ride and sets their ride_id to NULL, which
\* the NOT NULL column refuses (models/reservation.py 8).  In the states of
\* this specification every notification of a ride comes with a reservation
\* of that ride.
RideDependents(rv, id) ==
    \E i \in 1..Len(rv) : ReservationExists(rv, i) /\ rv[i].ride_id = id

\* db.session.delete(ride); db.session.commit(): the DELETE waits for a row
\* lock; there is no except clause, a failure is answered 500 and the
\* session is rolled back
RideDeleteCommit(p) ==
    LET req == procs[p]
        result == IF ~RideExists(rides, req.id) \/ RideDependents(reservations, req.id)
                  THEN Abort(500, "Unexpected server error") ELSE Return(200)
    IN
    /\ req.op = "ride_delete" /\ req.pc = "commit"
    /\ Succeeded(result) => LockFree(lock, req.id)
    /\ procs' = Finish(p, result)
    /\ rides' = IF Succeeded(result) THEN [rides EXCEPT ![req.id] = DeletedRide]
                ELSE rides
    /\ resp' = Response("ride_delete", result, NoBody)
    /\ UNCHANGED <<reservations, notifications, capacity, lock, for_update, others>>

\* employee 4 asks for a seat, employee 1 (the driver) or 3 deletes the
\* ride, the driver approves or rejects a reservation
DeleteRequests ==
    {OverlapRequest("create", 4, 1, IntVal(1))}
    \cup {OverlapRequest("ride_delete", c, 1, Absent) : c \in {1, 3}}
    \cup {OverlapRequest(op, 1, i, Absent) : op \in {"approve", "reject"}, i \in 1..2}

\* the ride has no reservation yet, or one of employee 2
InitRideDelete ==
    \E c \in 1..MaxSeats :
    \E rv \in {b \in BookedReservations(c) : Len(b) <= 1} :
        /\ rides = <<BookedRide(c, rv)>>
        /\ capacity = <<c>>
        /\ reservations = rv
        /\ notifications = BookedNotifications(rv, Len(rv))
        /\ resp = NoResponse
        /\ procs \in [1..NumDeleters -> DeleteRequests]
        /\ lock = <<0>>
        /\ for_update \in BOOLEAN
        /\ details = <<NewDetails>>
        /\ is_read = {}
        /\ employees = <<>>
        /\ before = [rides |-> rides, reservations |-> reservations]

NextRideDelete ==
    \/ \E p \in ProcIds : ApproveGetReservation(p)
    \/ \E p \in ProcIds : ApproveLockRide(p)
    \/ \E p \in ProcIds : ApproveCommit(p)
    \/ \E p \in ProcIds : RejectGetReservation(p)
    \/ \E p \in ProcIds : RejectCommit(p)
    \/ \E p \in ProcIds : CreateGetRide(p)
    \/ \E p \in ProcIds : CreateQueryExisting(p)
    \/ \E p \in ProcIds : CreateCommit(p)
    \/ \E p \in ProcIds : RideDeleteGet(p)
    \/ \E p \in ProcIds : RideDeleteCommit(p)

SpecRideDelete == InitRideDelete /\ [][NextRideDelete]_vars

(* ------------- overlapping registrations: SpecRegister ------------------ *)
\* POST /auth/register and POST /employees/ query the email and then insert;
\* the column employees.email is UNIQUE, so the INSERT of a held email raises
\* IntegrityError at db.session.commit(), which no handler catches.
Emails == {"", "a@x", "b@x"}      \* "" is a body without the key

Employee(email) == [email |-> email]
EmailHeld(es, email) == \E i \in 1..Len(es) : es[i].email = email
EmployeeBody(id) == Body(id, id, 0, 0, "")

\* complete: the body carries name, department (and password) as well
RegisterRequest(op, email, complete) ==
    [op |-> op, email |-> email, complete |-> complete,
     pc |-> "start", result |-> NoResult]
RegisterRequests ==
    {RegisterRequest(op, email, complete) :
        op \in {"register", "employee_create"}, email \in Emails, complete \in BOOLEAN}

\* Register.post up to its query
RegisterQueryResult(es, req) ==
    IF req.email = "" \/ ~req.complete
    THEN Abort(400, "name, email, password, and department are required")
    ELSE IF EmailHeld(es, req.email) THEN Abort(409, "Email already registered")
    ELSE Return(201)

\* EmployeeList.post up to Employee(...): data['name'] of a body without the
\* key is a KeyError
EmployeeQueryResult(es, req) ==
    IF req.email # "" /\ EmailHeld(es, req.email) THEN Abort(400, "Email already exists")
    ELSE IF req.email = "" \/ ~req.complete THEN Abort(500, "Unexpected server error")
    ELSE Return(201)

QueryEmail(p) ==
    LET req == procs[p]
        result == IF req.op = "register" THEN RegisterQueryResult(employees, req)
                  ELSE EmployeeQueryResult(employees, req)
    IN
    /\ req.pc = "start"
    /\ IF Succeeded(result)
       THEN /\ procs' = [procs EXCEPT ![p].pc = "commit"]
            /\ UNCHANGED resp
       ELSE /\ procs' = [procs EXCEPT ![p].result = result, ![p].pc = "done"]
            /\ resp' = Response(req.op, result, NoBody)
    /\ UNCHANGED <<db, capacity, lock, for_update, others>>

\* db.session.add(employee); db.session.commit()
CommitResult(es, req) ==
    IF EmailHeld(es, req.email) THEN Abort(500, "Unexpected server error")
    ELSE Return(201)

CommitEmployee(p) ==
    LET req == procs[p]
        result == CommitResult(employees, req)
    IN
    /\ req.pc = "commit"
    /\ employees' = IF Succeeded(result)
                    THEN Append(employees, Employee(req.email)) ELSE employees
    /\ procs' = [procs EXCEPT ![p].result = result, ![p].pc = "done"]
    /\ resp' = Response(req.op, result, EmployeeBody(Len(employees')))
    /\ UNCHANGED <<db, capacity, lock, for_update, details, is_read, before>>

InitRegister ==
    /\ rides = <<>> /\ reservations = <<>> /\ notifications = <<>>
    /\ capacity = <<>> /\ details = <<>> /\ is_read = {}
    /\ lock = <<>> /\ for_update = FALSE
    /\ resp = NoResponse
    /\ employees = <<>>
    /\ before = <<>>
    /\ procs \in [1..NumProcs -> RegisterRequests]

NextRegister ==
    \/ \E p \in ProcIds : QueryEmail(p)
    \/ \E p \in ProcIds : CommitEmployee(p)

SpecRegister == InitRegister /\ [][NextRegister]_vars

(* ------------------------------ claims --------------------------------- *)
RideIds == 1..Len(rides)
ReservationIds == 1..Len(reservations)
Active(reservation) == reservation.status \in {"PENDING", "CONFIRMED"}
ReservationOp == resp'.op \in {"create", "approve", "reject", "cancel"}

\* C1: for every ride, available_seats plus the seats of its CONFIRMED
\* reservations equals the seat count of its last capacity-setting request
\* (ride creation or driver update).
C1_SeatAccounting ==
    \A r \in RideIds :
        rides[r].available_seats + ConfirmedSeats(reservations, r) = capacity[r]

\* C3: an (employee, ride) pair never has two reservations in PENDING or
\* CONFIRMED, and a create for the pair succeeds only when every earlier
\* reservation of the pair is CANCELLED or REJECTED.
C3_AtMostOneActive ==
    \A i, j \in ReservationIds :
        (/\ i # j
         /\ reservations[i].employee_id = reservations[j].employee_id
         /\ reservations[i].ride_id = reservations[j].ride_id)
        => ~(Active(reservations[i]) /\ Active(reservations[j]))

C3_CreateAfterRelease ==
    (resp'.op = "create" /\ resp'.code = 201) =>
        \A i \in ReservationIds :
            (/\ reservations[i].employee_id = resp'.body.employee_id
             /\ reservations[i].ride_id = resp'.body.ride_id)
            => reservations[i].status \in {"CANCELLED", "REJECTED"}

C3_OneActivePerPair == []C3_AtMostOneActive /\ [][C3_CreateAfterRelease]_vars

\* a pair whose first reservation was cancelled or rejected holds a new PENDING one
C3_Witness ==
    \E i, j \in ReservationIds :
        /\ i < j
        /\ reservations[i].employee_id = reservations[j].employee_id
        /\ reservations[i].ride_id = reservations[j].ride_id
        /\ reservations[i].status \in {"CANCELLED", "REJECTED"}
        /\ reservations[j].status = "PENDING"
        /\ resp.op = "create" /\ resp.code = 201

\* C4: a ride is FULL exactly when it has no seats left and is not COMPLETED,
\* and ACTIVE exactly when it has seats left and is not COMPLETED.
C4_StatusMatchesSeats ==
    \A r \in RideIds :
        /\ rides[r].status = "FULL"
             <=> (rides[r].available_seats = 0 /\ rides[r].status # "COMPLETED")
        /\ rides[r].status = "ACTIVE"
             <=> (rides[r].available_seats > 0 /\ rides[r].status # "COMPLETED")

(* C2 is checked under SpecApprove, the others under Spec. *)
AllDone == \A p \in ProcIds : procs[p].pc = "done"
Approved == {p \in ProcIds : Succeeded(procs[p].result)}
Refused == {p \in ProcIds : procs[p].result.code = 400
                             /\ ERROR_CODES(procs[p].result.code) = "VALIDATION_ERROR"}
Confirmed == {i \in ReservationIds : reservations[i].status = "CONFIRMED"}

ApprovalsMatchSeats ==
    AllDone =>
        /\ Cardinality(Approved) = capacity[1]
        /\ Cardinality(Refused) = Len(procs) - capacity[1]
        /\ Cardinality(Confirmed) = capacity[1]
        /\ rides[1].available_seats = 0

\* C2: N overlapping approve calls of the driver, each on another PENDING
\* one-seat reservation of a ride with C < N seats: when all have returned,
\* exactly C succeeded, N-C failed with VALIDATION_ERROR, C reservations are
\* CONFIRMED and the ride has 0 seats left.
C2_ConcurrentApprovals == ApprovalsMatchSeats

\* the same, on a database that locks the ride row for SELECT ... FOR UPDATE
C2_WithRowLocks == for_update => ApprovalsMatchSeats

C2_WithRowLocks_Witness ==
    /\ for_update /\ AllDone
    /\ Len(procs) = 3 /\ capacity[1] = 2
    /\ procs[1].result.message = "Not enough seats available"

\* C5: the driver's approve of a PENDING reservation of s seats, s at most the
\* ride's available_seats, succeeds; the ride loses exactly s seats, the
\* reservation is CONFIRMED, and the ride is FULL if no seat is left and keeps
\* its status otherwise.
C5_ApproveAccepted ==
    \A c \in Callers, i \in ReservationIds :
        LET reservation == reservations[i]
            ride == rides[reservation.ride_id]
        IN (/\ ride.driver_id = c
            /\ reservation.status = "PENDING"
            /\ reservation.seats_reserved <= ride.available_seats)
           => Succeeded(ApproveResult(rides, reservations, c, i))

C5_ApproveEffect ==
    (resp'.op = "approve" /\ resp'.code = 200) =>
        LET i == resp'.body.id
            r == reservations[i].ride_id
            s == reservations[i].seats_reserved
        IN /\ reservations[i].status = "PENDING"
           /\ s <= rides[r].available_seats
           /\ rides'[r].available_seats = rides[r].available_seats - s
           /\ reservations'[i].status = "CONFIRMED"
           /\ rides'[r].status = IF rides'[r].available_seats = 0
                                 THEN "FULL" ELSE rides[r].status

C5_Approve == []C5_ApproveAccepted /\ [][C5_ApproveEffect]_vars

\* an approve that left seats, on a ride that stays ACTIVE
C5_Witness ==
    /\ resp.op = "approve" /\ resp.code = 200
    /\ reservations[resp.body.id].status = "CONFIRMED"
    /\ rides[resp.body.ride_id].available_seats = 1
    /\ rides[resp.body.ride_id].status = "ACTIVE"

\* C6: by the entitled caller, approve and reject of a reservation that is not
\* PENDING and cancel of one that is CANCELLED or REJECTED fail with
\* VALIDATION_ERROR, and such a failure changes no ride, reservation or
\* notification.
C6_TerminalRefused ==
    \A c \in Callers, i \in ReservationIds :
        LET reservation == reservations[i]
            ride == rides[reservation.ride_id]
        IN /\ (ride.driver_id = c /\ reservation.status # "PENDING")
              => /\ ApproveResult(rides, reservations, c, i).code = 400
                 /\ RejectResult(rides, reservations, c, i).code = 400
                 /\ ERROR_CODES(400) = "VALIDATION_ERROR"
           /\ (reservation.employee_id = c
               /\ reservation.status \in {"CANCELLED", "REJECTED"})
              => CancelResult(reservations, c, i).code = 400

C6_RefusalChangesNothing ==
    (resp'.op \in {"approve", "reject", "cancel"} /\ resp'.error = "VALIDATION_ERROR")
        => UNCHANGED db

C6_Terminality == []C6_TerminalRefused /\ [][C6_RefusalChangesNothing]_vars

\* an approve refused because the reservation is already CONFIRMED
C6_Witness ==
    /\ resp.op = "approve" /\ resp.error = "VALIDATION_ERROR"
    /\ resp.message = "Cannot approve reservation with status"
    /\ \E i \in ReservationIds : reservations[i].status = "CONFIRMED"

\* C7: a create whose seats_reserved is not a positive integer, whose employee
\* already holds a PENDING or CONFIRMED reservation on the ride, whose ride is
\* COMPLETED or FULL, or which asks for more than available_seats fails with
\* VALIDATION_ERROR; one that names a ride that does not exist fails with
\* NOT_FOUND (the seats are validated before the ride is looked up); a failed
\* create adds no reservation and no notification and leaves the rides alone.
PositiveInt(seats) == ~seats.given \/ (seats.isInt /\ seats.val > 0)

C7_CreateRefused ==
    \A e \in EmployeeIdInputs, r \in {0} \cup RideIdInputs, s \in SeatInputs :
        LET result == CreateCheck(rides, reservations, e, r, s) IN
        /\ ~PositiveInt(s) => result.code = 400
        /\ (RideExists(rides, r) /\ ExistingReservation(reservations, e, r))
           => result.code = 400
        /\ (RideExists(rides, r) /\ rides[r].status \in {"COMPLETED", "FULL"})
           => result.code = 400
        /\ (RideExists(rides, r) /\ SeatsRequested(s) > rides[r].available_seats)
           => result.code = 400
        /\ (PositiveInt(s) /\ e # 0 /\ r # 0 /\ ~RideExists(rides, r))
           => result.code = 404
        /\ ERROR_CODES(400) = "VALIDATION_ERROR" /\ ERROR_CODES(404) = "NOT_FOUND"

C7_FailedCreateChangesNothing ==
    (resp'.op = "create" /\ resp'.code # 201) => UNCHANGED db

C7_CreateErrors == []C7_CreateRefused /\ [][C7_FailedCreateChangesNothing]_vars

\* a create refused for asking more seats than the ride has left
C7_Witness ==
    /\ resp.op = "create" /\ resp.error = "VALIDATION_ERROR"
    /\ resp.message = "Not enough seats available"
    /\ \E r \in RideIds : rides[r].status = "ACTIVE" /\ rides[r].available_seats = 1

\* C8: a successful create appends one PENDING reservation with the requested
\* seats and leaves every ride as it was; a reservation request takes seats
\* from a ride only in the step that makes a reservation of the ride CONFIRMED.
C8_CreateEffect ==
    (resp'.op = "create" /\ resp'.code = 201) =>
        /\ Len(reservations') = Len(reservations) + 1
        /\ \A i \in ReservationIds : reservations'[i] = reservations[i]
        /\ reservations'[Len(reservations')] =
               Reservation(resp'.body.employee_id, resp'.body.ride_id,
                           resp'.body.seats, "PENDING")
        /\ resp'.body.seats >= 1
        /\ rides' = rides

C8_DeductOnlyOnConfirm ==
    ReservationOp =>
        \A r \in RideIds :
            rides'[r].available_seats < rides[r].available_seats
            => \E i \in ReservationIds :
                   /\ reservations[i].ride_id = r
                   /\ reservations[i].status # "CONFIRMED"
                   /\ reservations'[i].status = "CONFIRMED"
                   /\ rides'[r].available_seats =
                          rides[r].available_seats - reservations[i].seats_reserved

C8_CreateTakesNoSeats == [][C8_CreateEffect /\ C8_DeductOnlyOnConfirm]_vars

\* a two-seat request is PENDING on a ride that still has both seats
C8_Witness ==
    /\ resp.op = "create" /\ resp.code = 201 /\ resp.body.seats = 2
    /\ reservations[resp.body.id].status = "PENDING"
    /\ rides[resp.body.ride_id].available_seats = 2

\* C9: a cancel by the reservation's employee of a PENDING or CONFIRMED
\* reservation succeeds and sets it CANCELLED; from CONFIRMED the ride gets
\* exactly seats_reserved back and a FULL ride is ACTIVE again; from PENDING
\* the ride's available_seats and status do not change.
C9_CancelAccepted ==
    \A c \in Callers, i \in ReservationIds :
        (reservations[i].employee_id = c /\ Active(reservations[i]))
        => Succeeded(CancelResult(reservations, c, i))

C9_CancelEffect ==
    (resp'.op = "cancel" /\ resp'.code = 200) =>
        LET i == resp'.body.id
            r == reservations[i].ride_id
            s == reservations[i].seats_reserved
        IN /\ Active(reservations[i])
           /\ reservations'[i].status = "CANCELLED"
           /\ reservations[i].status = "CONFIRMED" =>
                 /\ rides'[r].available_seats = rides[r].available_seats + s
                 /\ rides'[r].status = IF rides[r].status = "FULL"
                                       THEN "ACTIVE" ELSE rides[r].status
           /\ reservations[i].status = "PENDING" => rides' = rides

C9_Cancel == []C9_CancelAccepted /\ [][C9_CancelEffect]_vars

\* a cancelled two-seat reservation gave a FULL ride its seats back
C9_Witness ==
    /\ resp.op = "cancel" /\ resp.code = 200 /\ resp.body.seats = 2
    /\ rides[resp.body.ride_id].status = "ACTIVE"
    /\ rides[resp.body.ride_id].available_seats = 2
    /\ \E k \in 1..Len(notifications) :
           /\ notifications[k].kind = "approved"
           /\ notifications[k].employee_id = resp.body.employee_id

\* C10: approve and reject by an employee who is not the ride's driver fail
\* with FORBIDDEN whatever the reservation's status, and such a failure
\* changes no ride, reservation or notification.
C10_NonDriverRefused ==
    \A c \in Callers, i \in ReservationIds :
        rides[reservations[i].ride_id].driver_id # c
        => /\ ApproveResult(rides, reservations, c, i).code = 403
           /\ RejectResult(rides, reservations, c, i).code = 403
           /\ ERROR_CODES(403) = "FORBIDDEN"

C10_ForbiddenChangesNothing ==
    (resp'.op \in {"approve", "reject"} /\ resp'.error = "FORBIDDEN") => UNCHANGED db

C10_DriverOnly == []C10_NonDriverRefused /\ [][C10_ForbiddenChangesNothing]_vars

\* a reject by a non-driver was refused while the only reservation is CONFIRMED
C10_Witness ==
    /\ resp.op = "reject" /\ resp.error = "FORBIDDEN"
    /\ Len(reservations) = 1 /\ reservations[1].status = "CONFIRMED"

\* C11: a cancel by an employee other than the reservation's own employee,
\* the ride's driver included, fails with FORBIDDEN whatever the reservation's
\* status, and leaves the reservation's status and the ride's available_seats
\* and status as they were.
C11_NonOwnerRefused ==
    \A c \in Callers, i \in ReservationIds :
        reservations[i].employee_id # c
        => /\ CancelResult(reservations, c, i).code = 403
           /\ ERROR_CODES(403) = "FORBIDDEN"

C11_ForbiddenChangesNothing ==
    (resp'.op = "cancel" /\ resp'.error = "FORBIDDEN")
        => /\ rides' = rides
           /\ reservations' = reservations

C11_OwnerOnly == []C11_NonOwnerRefused /\ [][C11_ForbiddenChangesNothing]_vars

\* the driver (the only caller who is not the rider) was refused the cancel of a
\* reservation that is already CANCELLED
C11_Witness ==
    /\ resp.op = "cancel" /\ resp.error = "FORBIDDEN"
    /\ Len(reservations) = 1 /\ Len(rides) = 1
    /\ rides[1].driver_id = 1 /\ reservations[1].employee_id = 2
    /\ reservations[1].status = "CANCELLED"

\* C12: once the status of a ride is COMPLETED, no ride update, ride complete,
\* reservation create, approve, reject or cancel makes it ACTIVE or FULL.
C12_CompletedStays ==
    \A r \in RideIds :
        rides[r].status = "COMPLETED" => rides'[r].status \notin {"ACTIVE", "FULL"}

C12_CompletedIsTerminal == [][C12_CompletedStays]_vars

\* C13: the driver's reject of a PENDING reservation succeeds, moves it from
\* PENDING to REJECTED, and leaves every ride (available_seats and status) and
\* every other reservation as it was.
C13_RejectAccepted ==
    \A c \in Callers, i \in ReservationIds :
        (rides[reservations[i].ride_id].driver_id = c
         /\ reservations[i].status = "PENDING")
        => Succeeded(RejectResult(rides, reservations, c, i))

C13_RejectEffect ==
    (resp'.op = "reject" /\ resp'.code = 200) =>
        LET i == resp'.body.id IN
        /\ reservations[i].status = "PENDING"
        /\ reservations' = [reservations EXCEPT ![i].status = "REJECTED"]
        /\ rides' = rides

C13_Reject == []C13_RejectAccepted /\ [][C13_RejectEffect]_vars

\* a two-seat request was rejected on a ride that keeps its two seats
C13_Witness ==
    /\ resp.op = "reject" /\ resp.code = 200 /\ resp.body.seats = 2
    /\ reservations[resp.body.id].status = "REJECTED"
    /\ rides[resp.body.ride_id].available_seats = 2
    /\ rides[resp.body.ride_id].status = "ACTIVE"

\* C14: every step keeps the notifications it found and appends: two for a
\* successful create (the first to the rider, the second to the ride's
\* driver), one to the rider for a successful approve and for a successful
\* reject, none for a cancel and none for a request that fails.
Appended == SubSeq(notifications', Len(notifications) + 1, Len(notifications'))

C14_Appends ==
    /\ Len(notifications') >= Len(notifications)
    /\ SubSeq(notifications', 1, Len(notifications)) = notifications
    /\ (resp'.op = "create" /\ resp'.code = 201) =>
           /\ Len(Appended) = 2
           /\ Appended[1].employee_id = resp'.body.employee_id
           /\ Appended[2].employee_id = rides[resp'.body.ride_id].driver_id
           /\ \A k \in 1..2 : Appended[k].ride_id = resp'.body.ride_id
    /\ (resp'.op \in {"approve", "reject"} /\ resp'.code = 200) =>
           /\ Len(Appended) = 1
           /\ Appended[1].employee_id = reservations[resp'.body.id].employee_id
           /\ Appended[1].ride_id = reservations[resp'.body.id].ride_id
    /\ resp'.op = "cancel" => Appended = <<>>
    /\ ~Succeeded(resp') => Appended = <<>>
    /\ resp'.op \notin {"create", "approve", "reject"} => Appended = <<>>

C15_UpdateRefused ==
    \A c \in Callers, r \in RideIds, f \in FieldInputs, s \in IntInputs :
        LET result == RideUpdateCheck(rides, reservations, c, r, f, s) IN
        /\ rides[r].driver_id # c => result.code = 403
        /\ (rides[r].driver_id = c /\ rides[r].status = "COMPLETED")
           => result.code = 400
        /\ (rides[r].driver_id = c /\ s.given
            /\ (f.departure_time = "" \/ fromisoformat(f.departure_time) # 0)
            /\ s.val < ConfirmedSeats(reservations, r))
           => result.code = 400
        /\ ERROR_CODES(403) = "FORBIDDEN" /\ ERROR_CODES(400) = "VALIDATION_ERROR"

C15_RefusedPersistsNothing ==
    (resp'.op = "ride_update" /\ resp'.code # 200)
        => /\ rides' = rides
           /\ details' = details

C16_CompleteResult ==
    \A c \in Callers, r \in RideIds :
        LET result == RideCompleteCheck(rides, c, r) IN
        /\ Succeeded(result) <=> (rides[r].driver_id = c /\ rides[r].status # "COMPLETED")
        /\ rides[r].driver_id # c => ERROR_CODES(result.code) = "FORBIDDEN"
        /\ (rides[r].driver_id = c /\ rides[r].status = "COMPLETED")
           => ERROR_CODES(result.code) = "VALIDATION_ERROR"

C16_CompleteEffect ==
    resp'.op = "ride_complete" =>
        IF resp'.code = 200
        THEN LET r == resp'.body.id IN
             /\ rides[r].status # "COMPLETED"
             /\ rides' = [rides EXCEPT ![r].status = "COMPLETED"]
             /\ rides'[r].available_seats = rides[r].available_seats
        ELSE rides' = rides

C16_Complete == []C16_CompleteResult /\ [][C16_CompleteEffect]_vars

\* a ride with one seat taken and one left was completed, and a second
\* complete of it was refused
C16_Witness ==
    /\ resp.op = "ride_complete" /\ resp.error = "VALIDATION_ERROR"
    /\ \E r \in RideIds :
           /\ rides[r].status = "COMPLETED"
           /\ rides[r].available_seats = 1
           /\ ConfirmedSeats(reservations, r) = 1

\* C17: the delete of a reservation gives its seats_reserved to the ride's
\* available_seats when the reservation is CONFIRMED, and leaves the ride's
\* available_seats as it was when the reservation is PENDING, CANCELLED or
\* REJECTED.
C17_DeleteEffect ==
    (resp'.op = "delete" /\ resp'.code = 200) =>
        \A i \in ReservationIds :
            (reservations[i] # Deleted /\ reservations'[i] = Deleted) =>
                LET r == reservations[i].ride_id IN
                rides'[r].available_seats =
                    rides[r].available_seats
                    + (IF reservations[i].status = "CONFIRMED"
                       THEN reservations[i].seats_reserved ELSE 0)

C17_DeleteRestoresDeducted == [][C17_DeleteEffect]_vars

\* C18: a mark-read call on a notification of another employee fails with
\* FORBIDDEN, a call on a missing notification fails with NOT_FOUND, and only
\* a call that succeeds changes is_read; this for the handler of each of the
\* two notifications modules.
NotificationIds == {n \in 1..Len(notifications) : notifications[n] # DeletedNotification}

C18_OwnerOnly ==
    \A c \in Callers :
        /\ \A n \in NotificationIds :
               notifications[n].employee_id # c
               => /\ ERROR_CODES(NotificationReadCheck(notifications, c, n).code)
                     = "FORBIDDEN"
                  /\ ERROR_CODES(app_NotificationReadCheck(notifications, c, n).code)
                     = "FORBIDDEN"
        /\ \A n \in NotificationIdInputs \ NotificationIds :
               /\ NotificationReadCheck(notifications, c, n).code = 404
               /\ app_NotificationReadCheck(notifications, c, n).code = 404

\* the same for the handler of backend/app/api/notifications.py alone
C18_BackendOwnerOnly ==
    \A c \in Callers :
        /\ \A n \in NotificationIds :
               notifications[n].employee_id # c
               => ERROR_CODES(NotificationReadCheck(notifications, c, n).code) = "FORBIDDEN"
        /\ \A n \in NotificationIdInputs \ NotificationIds :
               NotificationReadCheck(notifications, c, n).code = 404

\* C19: no two employees share an email, and a register request that ends
\* while its email is held by an employee ends with CONFLICT and adds no
\* employee, whether or not it overlaps another request.
C19_NoSharedEmail ==
    \A i, j \in 1..Len(employees) :
        i # j => employees[i].email # employees[j].email

C19_HeldIsConflict ==
    \A p \in ProcIds :
        (/\ procs[p].op = "register" /\ procs[p].complete
         /\ procs[p].pc # "done" /\ procs'[p].pc = "done"
         /\ EmailHeld(employees, procs[p].email))
        => /\ ERROR_CODES(procs'[p].result.code) = "CONFLICT"
           /\ employees' = employees

C19_UniqueEmail == []C19_NoSharedEmail /\ [][C19_HeldIsConflict]_vars

\* the part that holds: the emails stay distinct, and a register request whose
\* query finds its email held ends with CONFLICT
C19_QueryConflict ==
    \A p \in ProcIds :
        (/\ procs[p].op = "register" /\ procs[p].complete
         /\ procs[p].pc = "start" /\ procs'[p].pc = "done"
         /\ EmailHeld(employees, procs[p].email))
        => /\ ERROR_CODES(procs'[p].result.code) = "CONFLICT"
           /\ employees' = employees

C19_EmailsStayUnique == []C19_NoSharedEmail /\ [][C19_QueryConflict]_vars

\* C20: overlapping approve calls of the driver on one PENDING reservation:
\* when all have returned, exactly one succeeded, the others failed with
\* VALIDATION_ERROR, and the ride lost seats_reserved once.
ApprovedOnce ==
    AllDone =>
        /\ Cardinality(Approved) = 1
        /\ Cardinality(Refused) = Len(procs) - 1
        /\ rides[1].available_seats = capacity[1] - reservations[1].seats_reserved

C20_SameReservation == ApprovedOnce

\* the same, on a database that locks the ride row for SELECT ... FOR UPDATE
C20_WithRowLocks == for_update => ApprovedOnce

(* C21..C25, C28 and C30 are checked under SpecOverlap. *)
\* the requests p and q ended, neither of them by a failure of the database
Ended(p, q) ==
    /\ p # q /\ procs[p].pc = "done" /\ procs[q].pc = "done"
    /\ procs[p].result.code # 500 /\ procs[q].result.code # 500

WasPending(i) == before.reservations[i].status = "PENDING"
WasConfirmed(i) == before.reservations[i].status = "CONFIRMED"

\* C21: an approve and a reject of the driver that overlap on one PENDING
\* reservation: exactly one of them succeeds, the reservation ends in the
\* status that one sets, and the ride has lost the seats exactly when the
\* reservation ends CONFIRMED.
C21_ApproveOrReject ==
    \A p, q \in ProcIds :
        (/\ Ended(p, q)
         /\ procs[p].op = "approve" /\ procs[q].op = "reject"
         /\ procs[p].id = procs[q].id /\ WasPending(procs[p].id))
        => LET i == procs[p].id IN
           /\ Succeeded(procs[p].result) # Succeeded(procs[q].result)
           /\ reservations[i].status =
                  IF Succeeded(procs[p].result) THEN "CONFIRMED" ELSE "REJECTED"
           /\ rides[1].available_seats =
                  before.rides[1].available_seats
                  - (IF reservations[i].status = "CONFIRMED"
                     THEN reservations[i].seats_reserved ELSE 0)

\* the rides and reservations that a call leaves when no other call overlaps it
Alone(st, req) ==
    LET rs == st.rides
        rv == st.reservations
    IN
    CASE req.op = "approve" ->
            IF Succeeded(ApproveResult(rs, rv, req.caller, req.id))
            THEN [rides |-> [rs EXCEPT ![rv[req.id].ride_id] = ApproveRide(@, rv[req.id])],
                  reservations |-> [rv EXCEPT ![req.id].status = "CONFIRMED"]]
            ELSE st
      [] req.op = "cancel" ->
            IF Succeeded(CancelResult(rv, req.caller, req.id))
            THEN [rides |-> [rs EXCEPT ![rv[req.id].ride_id] = CancelRide(@, rv[req.id])],
                  reservations |-> [rv EXCEPT ![req.id].status = "CANCELLED"]]
            ELSE st
      [] req.op = "ride_update" ->
            IF Succeeded(RideUpdateCheck(rs, rv, req.caller, req.id, NoFields, req.seats))
            THEN [rides |-> [rs EXCEPT ![req.id] = RideUpdate(@, req.seats)],
                  reservations |-> rv]
            ELSE st

\* the calls p and q, one after the other
Serial(p, q) == Alone(Alone(before, procs[p]), procs[q])

State == [rides |-> rides, reservations |-> reservations]

\* C22: an approve of the driver and a cancel of the rider that overlap on
\* one PENDING reservation leave the rides and reservations that one of the
\* two serial orders leaves, and a reservation that ends CANCELLED has not
\* cost the ride any seats.
C22_ApproveCancelSerial ==
    \A p, q \in ProcIds :
        (/\ Ended(p, q)
         /\ procs[p].op = "approve" /\ procs[q].op = "cancel"
         /\ procs[p].id = procs[q].id /\ WasPending(procs[p].id))
        => /\ State \in {Serial(p, q), Serial(q, p)}
           /\ reservations[procs[p].id].status = "CANCELLED"
                 => rides[1].available_seats = before.rides[1].available_seats

\* C23: a cancel of a CONFIRMED reservation that overlaps an approve of
\* another reservation of the ride: when both succeed the ride ends with the
\* seats it had, plus the cancelled seats, minus the approved seats, and it
\* is FULL exactly when no seat is left.
C23_CancelApproveAtomic ==
    \A p, q \in ProcIds :
        (/\ Ended(p, q)
         /\ procs[p].op = "cancel" /\ procs[q].op = "approve"
         /\ procs[p].id # procs[q].id
         /\ WasConfirmed(procs[p].id) /\ WasPending(procs[q].id)
         /\ Succeeded(procs[p].result) /\ Succeeded(procs[q].result))
        => /\ rides[1].available_seats =
                  before.rides[1].available_seats
                  + reservations[procs[p].id].seats_reserved
                  - reservations[procs[q].id].seats_reserved
           /\ rides[1].status = IF rides[1].available_seats = 0 THEN "FULL" ELSE "ACTIVE"

\* C23 on a database that honours SELECT ... FOR UPDATE
C23_WithRowLocks == for_update => C23_CancelApproveAtomic

\* the reservations of employee e on the ride that are PENDING or CONFIRMED
ActiveOfPair(e, ride_id) ==
    {i \in DOMAIN reservations :
        /\ reservations[i].employee_id = e /\ reservations[i].ride_id = ride_id
        /\ reservations[i].status \in {"PENDING", "CONFIRMED"}}

\* C24: of two overlapping creates of one employee for one ride at most one
\* creates a reservation, and the pair never has two reservations that are
\* PENDING or CONFIRMED.
C24_OneCreatePerPair ==
    \A p, q \in ProcIds :
        (/\ Ended(p, q)
         /\ procs[p].op = "create" /\ procs[q].op = "create"
         /\ procs[p].caller = procs[q].caller /\ procs[p].id = procs[q].id)
        => /\ ~(Succeeded(procs[p].result) /\ Succeeded(procs[q].result))
           /\ Cardinality(ActiveOfPair(procs[p].caller, procs[p].id)) <= 1

\* C25: the ride update takes no row lock and does not read the ride again:
\* no step of it changes the lock, and its commit writes the seats of the
\* request over whatever the table holds and touches the status only when
\* the row it read was FULL, so an approve that committed in between is
\* overwritten or contradicted.
C25_UpdateUnguarded ==
    [][\A p \in ProcIds :
          LET req == procs[p] IN
          (req.op = "ride_update" /\ procs'[p] # req)
          => /\ lock' = lock
             /\ (req.pc = "commit" /\ Succeeded(procs'[p].result))
                => /\ rides'[req.id].available_seats =
                         IF req.seats.val # req.ride.available_seats
                         THEN req.seats.val ELSE rides[req.id].available_seats
                   /\ rides'[req.id].status =
                         IF req.ride.status = "FULL" /\ req.seats.val > 0
                         THEN "ACTIVE" ELSE rides[req.id].status]_vars

\* an update and an approve both succeeded and left a ride that neither
\* serial order leaves
C25_Witness ==
    \E p, q \in ProcIds :
        /\ Ended(p, q)
        /\ procs[p].op = "ride_update" /\ procs[q].op = "approve"
        /\ WasPending(procs[q].id)
        /\ Succeeded(procs[p].result) /\ Succeeded(procs[q].result)
        /\ State.rides \notin {Serial(p, q).rides, Serial(q, p).rides}

(* C26 and C27 are checked under Spec. *)
\* C26: the approve of a PENDING reservation whose ride is COMPLETED is
\* refused, and an approve leaves a COMPLETED ride and its PENDING
\* reservations as they were.
C26_Refused ==
    \A c \in Callers, i \in ReservationIds :
        (/\ reservations[i].status = "PENDING"
         /\ rides[reservations[i].ride_id].status = "COMPLETED")
        => ~Succeeded(ApproveResult(rides, reservations, c, i))

C26_CompletedUntouched ==
    resp'.op = "approve" =>
        \A i \in ReservationIds :
            (/\ reservations[i].status = "PENDING"
             /\ rides[reservations[i].ride_id].status = "COMPLETED")
            => /\ reservations'[i] = reservations[i]
               /\ rides'[reservations[i].ride_id] = rides[reservations[i].ride_id]

C26_NoApprovalOnCompleted == []C26_Refused /\ [][C26_CompletedUntouched]_vars

\* C27: the seats are checked again when the driver approves: the approve of
\* a PENDING reservation that asks for more seats than the ride has at that
\* moment fails with VALIDATION_ERROR, and the failed approve leaves the
\* reservation PENDING and the ride as it was.
C27_Refused ==
    \A c \in Callers, i \in ReservationIds :
        LET ride == rides[reservations[i].ride_id] IN
        (/\ ride.driver_id = c /\ reservations[i].status = "PENDING"
         /\ reservations[i].seats_reserved > ride.available_seats)
        => /\ ApproveResult(rides, reservations, c, i).code = 400
           /\ ERROR_CODES(400) = "VALIDATION_ERROR"

C27_RefusedChangesNothing ==
    (resp'.op = "approve" /\ resp'.code # 200) => UNCHANGED <<db, capacity>>

C27_CapacityRechecked == []C27_Refused /\ [][C27_RefusedChangesNothing]_vars

\* two requests that each fitted the ride when they were made; one is
\* CONFIRMED, and the approve of the other was refused for the seats
C27_Witness ==
    /\ resp.op = "approve" /\ resp.error = "VALIDATION_ERROR"
    /\ resp.message = "Not enough seats available"
    /\ \E i, j \in ReservationIds :
          /\ reservations[i].ride_id = reservations[j].ride_id
          /\ reservations[i].status = "CONFIRMED" /\ reservations[j].status = "PENDING"
          /\ reservations[i].seats_reserved <= capacity[reservations[i].ride_id]
          /\ reservations[j].seats_reserved <= capacity[reservations[j].ride_id]
          /\ reservations[j].seats_reserved > rides[reservations[j].ride_id].available_seats

(* C28 and C30 are checked under SpecOverlap. *)
\* the request p ends in this step
Ends(p) == procs[p].pc # "done" /\ procs'[p].pc = "done"

\* C28: every transition is all-or-nothing. The step in which an approve
\* succeeds sets the reservation CONFIRMED, takes its seats from the ride
\* (FULL when none is left) and adds the notification of the rider; the step
\* in which a create succeeds adds the reservation and its two
\* notifications; rides, reservations and notifications change in no other
\* kind of step, and a request that fails leaves all three as they were.
C28_ApproveCommitsTogether ==
    \A p \in ProcIds :
        (Ends(p) /\ procs[p].op = "approve" /\ Succeeded(procs'[p].result))
        => LET req == procs[p]
               r == req.reservation.ride_id
               left == req.ride.available_seats - req.reservation.seats_reserved
           IN /\ reservations'[req.id].status = "CONFIRMED"
              /\ rides'[r].available_seats = left
              /\ left = 0 => rides'[r].status = "FULL"
              /\ notifications' = Append(notifications,
                     Notification(req.reservation.employee_id, r, "approved"))

C28_CreateCommitsTogether ==
    \A p \in ProcIds :
        (Ends(p) /\ procs[p].op = "create" /\ Succeeded(procs'[p].result))
        => /\ Len(reservations') = Len(reservations) + 1
           /\ Len(notifications') = Len(notifications) + 2

C28_NothingElse ==
    /\ \A p \in ProcIds :
          (Ends(p) /\ ~Succeeded(procs'[p].result)) => UNCHANGED db
    /\ db' # db => \E p \in ProcIds : Ends(p) /\ Succeeded(procs'[p].result)

C28_AllOrNothing ==
    [][C28_ApproveCommitsTogether /\ C28_CreateCommitsTogether /\ C28_NothingElse]_vars

\* one approve succeeded and another request failed at its commit: the first
\* reservation is CONFIRMED with its seats taken and its notification
\* written, and the failed request left no row
C28_Witness ==
    \E p, q \in ProcIds :
        /\ p # q /\ procs[p].pc = "done" /\ procs[q].pc = "done"
        /\ procs[p].op = "approve" /\ Succeeded(procs[p].result)
        /\ procs[q].op \in {"approve", "create"} /\ procs[q].result.code = 500
        /\ procs[q].op = "approve" => procs[q].id # procs[p].id
        /\ State = Alone(before, procs[p])
        /\ Len(notifications) =
              Len(BookedNotifications(before.reservations, Len(before.reservations))) + 1

(* C29 is checked under SpecOverlap; it holds under Spec, one request at a
   time. *)
Transitions ==
    {<<"PENDING", "CONFIRMED">>, <<"PENDING", "REJECTED">>,
     <<"PENDING", "CANCELLED">>, <<"CONFIRMED", "CANCELLED">>}

\* C29: under create, approve, reject and cancel a reservation starts
\* PENDING and its status changes only from PENDING to CONFIRMED, REJECTED
\* or CANCELLED and from CONFIRMED to CANCELLED; no reservation disappears.
C29_Step ==
    /\ Len(reservations') >= Len(reservations)
    /\ \A i \in ReservationIds :
          \/ reservations'[i].status = reservations[i].status
          \/ <<reservations[i].status, reservations'[i].status>> \in Transitions
    /\ \A i \in 1..Len(reservations') :
          i > Len(reservations) => reservations'[i].status = "PENDING"

C29_StatusGraph == [][C29_Step]_vars

\* C30: under every interleaving of overlapping ride creates and updates
\* and reservation creates, approves, rejects and cancels, no ride has a
\* negative available_seats.
C30_NeverNegative == \A r \in RideIds : rides[r].available_seats >= 0

\* two approves that overlapped both succeeded on a ride that did not have
\* the seats for both
C30_Witness ==
    \E p, q \in ProcIds :
        /\ Ended(p, q)
        /\ procs[p].op = "approve" /\ procs[q].op = "approve"
        /\ procs[p].id # procs[q].id
        /\ Succeeded(procs[p].result) /\ Succeeded(procs[q].result)
        /\ before.rides[1].available_seats <
              reservations[procs[p].id].seats_reserved
              + reservations[procs[q].id].seats_reserved
        /\ rides[1].available_seats = 0

(* C31, C32, C33, C37 and C38 are checked under Spec. *)
\* C31: a cancel never reopens a COMPLETED ride: a successful cancel leaves
\* the status of a COMPLETED ride COMPLETED, and the only change of status a
\* cancel makes is from FULL to ACTIVE.
C31_Step ==
    (resp'.op = "cancel" /\ resp'.code = 200) =>
        \A r \in RideIds :
            /\ rides[r].status = "COMPLETED" => rides'[r].status = "COMPLETED"
            /\ rides'[r].status # rides[r].status
                  => rides[r].status = "FULL" /\ rides'[r].status = "ACTIVE"

C31_CancelKeepsCompleted == [][C31_Step]_vars

\* the CONFIRMED reservation of a COMPLETED ride was cancelled: the ride has
\* its seat back and is still COMPLETED
C31_Witness ==
    /\ resp.op = "cancel" /\ resp.code = 200
    /\ Len(reservations) = 1 /\ reservations[1].status = "CANCELLED"
    /\ rides[reservations[1].ride_id].status = "COMPLETED"
    /\ rides[reservations[1].ride_id].available_seats
          = capacity[reservations[1].ride_id]
    /\ \E n \in 1..Len(notifications) :
          notifications[n] = Notification(reservations[1].employee_id,
                                          reservations[1].ride_id, "approved")

\* C32: the seats, the employee and the ride of a reservation are fixed when
\* it is created: no request changes them afterwards, and every reservation
\* that create has made asks for a positive number of seats.
C32_Positive ==
    \A i \in ReservationIds :
        reservations[i].seats_reserved \in Nat \ {0}

C32_Step ==
    \A i \in ReservationIds :
        /\ reservations'[i].seats_reserved = reservations[i].seats_reserved
        /\ reservations'[i].employee_id = reservations[i].employee_id
        /\ reservations'[i].ride_id = reservations[i].ride_id

C32_FixedAtCreation == []C32_Positive /\ [][C32_Step]_vars

\* a two-seat reservation that was approved and then cancelled still has
\* its two seats
C32_Witness ==
    /\ resp.op = "cancel" /\ resp.code = 200
    /\ Len(reservations) = 1
    /\ reservations[1] = Reservation(resp.body.employee_id, resp.body.ride_id, 2, "CANCELLED")
    /\ \E n \in 1..Len(notifications) :
          notifications[n] = Notification(reservations[1].employee_id,
                                          reservations[1].ride_id, "approved")

\* C33: the driver's update of available_seats on a ride that is not
\* COMPLETED, to a value that is at least the seats of the ride's CONFIRMED
\* reservations, succeeds and sets available_seats to that value; a FULL
\* ride that gets a value above 0 becomes ACTIVE, and otherwise the status
\* stays as it was.
C33_UpdateAccepted ==
    \A c \in Callers, r \in RideIds, n \in SeatVals :
        (/\ rides[r].driver_id = c /\ rides[r].status # "COMPLETED"
         /\ n >= ConfirmedSeats(reservations, r))
        => Succeeded(RideUpdateCheck(rides, reservations, c, r, NoFields, IntVal(n)))

C33_UpdateEffect ==
    \A r \in RideIds, n \in SeatVals :
        (/\ resp'.op = "ride_update" /\ resp'.code = 200 /\ resp'.body.id = r
         /\ RideDetail_put(rides[r].driver_id, r, NoFields, IntVal(n)))
        => /\ rides'[r].available_seats = n
           /\ rides'[r].status = IF rides[r].status = "FULL" /\ n > 0
                                 THEN "ACTIVE" ELSE rides[r].status
           /\ \A q \in RideIds \ {r} : rides'[q] = rides[q]

C33_SeatUpdate == []C33_UpdateAccepted /\ [][C33_UpdateEffect]_vars

\* a ride whose two seats are CONFIRMED was FULL; the driver has set
\* available_seats to 2 and the ride is ACTIVE
C33_Witness ==
    /\ resp.op = "ride_update" /\ resp.code = 200
    /\ \E r \in RideIds :
          /\ ConfirmedSeats(reservations, r) = 2
          /\ rides[r].available_seats = 2 /\ rides[r].status = "ACTIVE"

\* the reservations of employee e, and no others
OwnReservations(rv, e) == SelectSeq(rv, LAMBDA row : row.employee_id = e)

\* C37: whether a create of a rider succeeds depends on the status and the
\* available_seats of the ride and on the rider's own reservations only:
\* the answer is the same when the reservations of all other riders are
\* taken away, and the same for any driver of the ride.
C37_OwnReservationsOnly ==
    \A e \in EmployeeIdInputs, r \in RideIds, s \in SeatInputs :
        /\ CreateCheck(rides, reservations, e, r, s)
             = CreateCheck(rides, OwnReservations(reservations, e), e, r, s)
        /\ \A d \in Callers :
             CreateCheck(rides, reservations, e, r, s)
             = CreateCheck([rides EXCEPT ![r].driver_id = d], reservations, e, r, s)

\* a create succeeded although the seats of the PENDING reservations of the
\* ride together exceed its available_seats
C37_Witness ==
    /\ resp.op = "create" /\ resp.code = 201
    /\ Len(reservations) = 2
    /\ reservations[1].status = "PENDING" /\ reservations[2].status = "PENDING"
    /\ reservations[1].ride_id = reservations[2].ride_id
    /\ reservations[1].employee_id # reservations[2].employee_id
    /\ reservations[1].seats_reserved + reservations[2].seats_reserved
          > rides[reservations[1].ride_id].available_seats

\* C38: approve and reject check in a fixed order: the reservation exists
\* (NOT_FOUND), the caller is the driver of the ride (FORBIDDEN), the
\* reservation is PENDING (VALIDATION_ERROR) and, for approve, the ride has
\* the seats (VALIDATION_ERROR); a caller who is not the driver gets
\* FORBIDDEN whatever the status of the reservation.
C38_CheckOrder ==
    \A c \in Callers, i \in ReservationIdInputs :
        LET approve == ApproveResult(rides, reservations, c, i)
            reject == RejectResult(rides, reservations, c, i)
        IN
        IF ~ReservationExists(reservations, i)
        THEN approve.code = 404 /\ reject.code = 404
        ELSE LET reservation == reservations[i]
                 ride == rides[reservation.ride_id]
             IN
             IF ride.driver_id # c
             THEN /\ approve.code = 403 /\ reject.code = 403
                  /\ ERROR_CODES(403) = "FORBIDDEN"
             ELSE IF reservation.status # "PENDING"
             THEN /\ approve = Abort(400, "Cannot approve reservation with status")
                  /\ reject = Abort(400, "Cannot reject reservation with status")
                  /\ ERROR_CODES(400) = "VALIDATION_ERROR"
             ELSE IF reservation.seats_reserved > ride.available_seats
             THEN /\ approve = Abort(400, "Not enough seats available")
                  /\ Succeeded(reject)
             ELSE Succeeded(approve) /\ Succeeded(reject)

\* an approve by an employee who is not the driver, on the only reservation,
\* which is CONFIRMED, was refused with FORBIDDEN
C38_Witness ==
    /\ resp.op = "approve" /\ resp.error = "FORBIDDEN"
    /\ Len(reservations) = 1 /\ reservations[1].status = "CONFIRMED"

(* C34, C35 and C36 are checked under SpecRideDelete. *)
\* the ride that the request read is gone
ReadNoRide(p) == procs[p].pc = "check" /\ procs[p].ride = DeletedRide

\* C34: an approve or a reject of a reservation whose ride was deleted
\* fails with NOT_FOUND and leaves the reservations and notifications as
\* they were.
C34_Step ==
    \A p \in ProcIds :
        (/\ procs[p].op \in {"approve", "reject"}
         /\ ReadNoRide(p) /\ Ends(p))
        => /\ procs'[p].result.code = 404
           /\ ERROR_CODES(404) = "NOT_FOUND"
           /\ UNCHANGED <<reservations, notifications>>

C34_MissingRideNotFound == [][C34_Step]_vars

\* C35: no reservation that is PENDING or CONFIRMED refers to a ride that
\* is not in the registry.
C35_RideExists ==
    \A i \in ReservationIds :
        reservations[i].status \in {"PENDING", "CONFIRMED"}
        => RideExists(rides, reservations[i].ride_id)

\* C36: a ride delete by an employee who is not the driver of the ride
\* fails with FORBIDDEN, and the ride stays in the registry.
C36_OwnerOnly ==
    \A p \in ProcIds :
        (/\ procs[p].op = "ride_delete" /\ procs[p].pc = "done"
         /\ procs[p].caller # before.rides[procs[p].id].driver_id
         /\ procs[p].result.code # 404)
        => /\ procs[p].result.code = 403
           /\ RideExists(rides, procs[p].id)

(* C39 is checked under SpecOverlapFair. *)
\* the row lock of a ride is held by an approve between its SELECT ... FOR
\* UPDATE and its end, and by no other request
C39_LockHeld ==
    \A r \in DOMAIN lock :
        lock[r] # 0 => /\ procs[lock[r]].op = "approve"
                       /\ procs[lock[r]].pc = "check"
                       /\ procs[lock[r]].reservation.ride_id = r

====
